---- MODULE Spec2Model ----
(***************************************************************************)
(* Ingest pipeline of the real-estate aggregator                           *)
(* (backend/data_processing/src/index.ts, utils.ts, database_setup/init.sql)*)
(*                                                                         *)
(* Producers publish JSON messages to a durable queue.  A worker's consume *)
(* callback parses a message, normalizes it (price parsing, geocoding,     *)
(* duplicate search), upserts it into the relational table `properties`    *)
(* keyed by source_url, indexes it into the search index keyed by          *)
(* source_url, and finally acks or nacks the message.                      *)
(*                                                                         *)
(* The model is one worker process.  Every `await` of the callback is a    *)
(* step boundary: the consumer sets no prefetch limit, so the broker       *)
(* delivers further messages and their callbacks run between two steps.    *)
(*                                                                         *)
(* Strings are TLA+ strings; the table Chars gives the characters of the   *)
(* strings the text functions inspect.  A nullable value is <<>> (absent)  *)
(* or <<v>> (present).  Values are those the worker sends to the stores;   *)
(* the stores' column types (NUMERIC scale, VARCHAR length) are outside    *)
(* the model, and the relational statement may fail for any reason.        *)
(*                                                                         *)
(* The second part models the API service (unnamed/part_006): the rate     *)
(* limiter middleware, GET /properties and GET /properties/filters/metadata *)
(* with their response cache, and generateCacheKey.  A request is a        *)
(* sequence of steps, one per `await`; the handlers of different requests  *)
(* interleave, the clock of the cache store advances and the worker may    *)
(* write the index between two steps.  rateLimiter.consume belongs to the  *)
(* package rate-limiter-flexible and is modelled by its contract: one      *)
(* counter per address that expires `duration` seconds after its first     *)
(* point, a rejection once the counter exceeds `points`.  The search store *)
(* answers term and terms clauses by the mapping ensureIndexExists creates. *)
(***************************************************************************)
EXTENDS Integers, Sequences, FiniteSets, TLC

\* ------------------------------------------------------------------ bounds
\* number of messages the producers publish in one behaviour
MaxPublish == 3
\* number of consume callbacks that may be in flight at the same time (the
\* consumer sets no prefetch limit)
MaxHandlers == 2
\* number of failures of external services (geocoder, relational store,
\* search store) in one behaviour
MaxFaults == 1

\* ------------------------------------------------------------- option type
None == <<>>
Some(v) == <<v>>
IsSome(o) == o # <<>>
Val(o) == o[1]

\* ------------------------------------------------------------ text helpers
\* characters of the strings that occur in the messages
Chars ==
  [ p \in {"$2,000/month", "€1850/month", "Contact for price",
           "USD on request", "Sunny 2BR", "Sunny 2BR Apt", "Untitled Listing", "Loft",
           "Seattle, WA", "Seattle, Washington"} |->
    CASE p = "$2,000/month" ->
           <<"$","2",",","0","0","0","/","m","o","n","t","h">>
      [] p = "€1850/month" ->
           <<"€","1","8","5","0","/","m","o","n","t","h">>
      [] p = "Contact for price" ->
           <<"C","o","n","t","a","c","t"," ","f","o","r"," ","p","r","i","c","e">>
      [] p = "USD on request" ->
           <<"U","S","D"," ","o","n"," ","r","e","q","u","e","s","t">>
      [] p = "Sunny 2BR" ->
           <<"S","u","n","n","y"," ","2","B","R">>
      [] p = "Sunny 2BR Apt" ->
           <<"S","u","n","n","y"," ","2","B","R"," ","A","p","t">>
      [] p = "Untitled Listing" ->
           <<"U","n","t","i","t","l","e","d"," ","L","i","s","t","i","n","g">>
      [] p = "Loft" -> <<"L","o","f","t">>
      [] p = "Seattle, WA" ->
           <<"S","e","a","t","t","l","e",","," ","W","A">>
      [] p = "Seattle, Washington" ->
           <<"S","e","a","t","t","l","e",","," ","W","a","s","h","i","n","g",
             "t","o","n">> ]

Upper == <<"A","B","C","D","E","F","G","H","I","J","K","L","M",
           "N","O","P","Q","R","S","T","U","V","W","X","Y","Z">>
Lower == <<"a","b","c","d","e","f","g","h","i","j","k","l","m",
           "n","o","p","q","r","s","t","u","v","w","x","y","z">>
Digits == <<"0","1","2","3","4","5","6","7","8","9">>

\* String.prototype.toLowerCase, one character
LowerChar(c) ==
  IF \E i \in 1..26 : Upper[i] = c
  THEN Lower[CHOOSE i \in 1..26 : Upper[i] = c]
  ELSE c

\* String.prototype.toLowerCase
ToLowerCase(s) == [i \in 1..Len(s) |-> LowerChar(s[i])]

\* does pattern p occur in s at position i
MatchAt(s, p, i) ==
  /\ i + Len(p) - 1 <= Len(s)
  /\ \A k \in 1..Len(p) : s[i + k - 1] = p[k]

\* String.prototype.includes
Includes(s, p) == \E i \in 1..Len(s) : MatchAt(s, p, i)

IsDigit(c) == \E i \in 1..10 : Digits[i] = c
DigitVal(c) == (CHOOSE i \in 1..10 : Digits[i] = c) - 1
IsSpace(c) == c = " "

\* ------------------------------------------------------------- utils.ts
\* numbers parsed from text are integers scaled by AmountScale (4 decimals);
\* NaN stands for the JavaScript NaN (no parsed number is negative)
AmountScale == 100 * 100
NaN == 0 - 1
\* conversion rates are scaled by RateScale
RateScale == 10 * 10

\* String.prototype.replace(/p1|p2|.../g, ''): at each position the first
\* alternative that matches is removed
RECURSIVE ReplaceAll(_, _, _)
ReplaceAll(s, pats, i) ==
  IF i > Len(s) THEN <<>>
  ELSE IF \E k \in 1..Len(pats) : MatchAt(s, pats[k], i)
       THEN LET k == CHOOSE k \in 1..Len(pats) :
                       /\ MatchAt(s, pats[k], i)
                       /\ \A j \in 1..(k - 1) : ~MatchAt(s, pats[j], i)
            IN  ReplaceAll(s, pats, i + Len(pats[k]))
       ELSE <<s[i]>> \o ReplaceAll(s, pats, i + 1)

\* the same with the /i flag
RECURSIVE ReplaceAllCI(_, _, _)
ReplaceAllCI(s, pats, i) ==
  IF i > Len(s) THEN <<>>
  ELSE IF \E k \in 1..Len(pats) : MatchAt(ToLowerCase(s), pats[k], i)
       THEN LET k == CHOOSE k \in 1..Len(pats) :
                       /\ MatchAt(ToLowerCase(s), pats[k], i)
                       /\ \A j \in 1..(k - 1) : ~MatchAt(ToLowerCase(s), pats[j], i)
            IN  ReplaceAllCI(s, pats, i + Len(pats[k]))
       ELSE <<s[i]>> \o ReplaceAllCI(s, pats, i + 1)

\* number of whitespace characters of s from position i on
RECURSIVE SpaceRun(_, _)
SpaceRun(s, i) ==
  IF i <= Len(s) /\ IsSpace(s[i]) THEN 1 + SpaceRun(s, i + 1) ELSE 0

\* length of the match of /\/month|\s*per month/i at position i, 0 if none
MonthMatchLen(s, i) ==
  LET low == ToLowerCase(s)
      n   == SpaceRun(s, i)
  IN  IF MatchAt(low, <<"/","m","o","n","t","h">>, i) THEN 6
      ELSE IF MatchAt(low, <<"p","e","r"," ","m","o","n","t","h">>, i + n)
           THEN n + 9
           ELSE 0

\* String.prototype.replace(/\/month|\s*per month/gi, '')
RECURSIVE StripMonth(_, _)
StripMonth(s, i) ==
  IF i > Len(s) THEN <<>>
  ELSE IF MonthMatchLen(s, i) > 0
       THEN StripMonth(s, i + MonthMatchLen(s, i))
       ELSE <<s[i]>> \o StripMonth(s, i + 1)

\* String.prototype.trim
RECURSIVE TrimLeft(_)
TrimLeft(s) ==
  IF s # <<>> /\ IsSpace(Head(s)) THEN TrimLeft(Tail(s)) ELSE s
RECURSIVE TrimRight(_)
TrimRight(s) ==
  IF s # <<>> /\ IsSpace(s[Len(s)])
  THEN TrimRight(SubSeq(s, 1, Len(s) - 1)) ELSE s
Trim(s) == TrimRight(TrimLeft(s))

\* String.prototype.match(/[\d.]+/): the first maximal run of digits and
\* dots, <<>> when there is none
IsNumChar(c) == IsDigit(c) \/ c = "."
RECURSIVE NumRunEnd(_, _)
NumRunEnd(s, i) ==
  IF i + 1 <= Len(s) /\ IsNumChar(s[i + 1]) THEN NumRunEnd(s, i + 1) ELSE i
FirstNumRun(s) ==
  IF \E i \in 1..Len(s) : IsNumChar(s[i])
  THEN LET b == CHOOSE i \in 1..Len(s) :
                  /\ IsNumChar(s[i])
                  /\ \A j \in 1..(i - 1) : ~IsNumChar(s[j])
       IN  SubSeq(s, b, NumRunEnd(s, b))
  ELSE <<>>

\* value of a sequence of digits
RECURSIVE DigitsVal(_)
DigitsVal(d) ==
  IF d = <<>> THEN 0
  ELSE 10 * DigitsVal(SubSeq(d, 1, Len(d) - 1)) + DigitVal(d[Len(d)])

\* the leading digits of s
RECURSIVE DigitPrefix(_)
DigitPrefix(s) ==
  IF s # <<>> /\ IsDigit(Head(s)) THEN <<Head(s)>> \o DigitPrefix(Tail(s))
  ELSE <<>>

\* d padded with zeros or cut to exactly n digits
FracDigits(d, n) == [i \in 1..n |-> IF i <= Len(d) THEN d[i] ELSE "0"]

\* parseFloat of a run of digits and dots: the longest prefix
\* digits [. digits]; NaN when that prefix has no digit
ParseFloat(s) ==
  LET ip   == DigitPrefix(s)
      rest == SubSeq(s, Len(ip) + 1, Len(s))
      fp   == IF rest # <<>> /\ Head(rest) = "."
              THEN DigitPrefix(Tail(rest)) ELSE <<>>
  IN  IF ip = <<>> /\ fp = <<>> THEN NaN
      ELSE DigitsVal(ip) * AmountScale + DigitsVal(FracDigits(fp, 4))

\* parsePrice of null or of the characters of a string: [threw, amount,
\* currency].  price_string_lower is a function value, so evaluating
\* price_string_lower.includes(...) raises a TypeError.
parsePrice(priceString) ==
  IF ~IsSome(priceString) \/ Val(priceString) = <<>>
  THEN [threw |-> FALSE, amount |-> None, currency |-> None]
  ELSE
    LET s   == Val(priceString)
        low == ToLowerCase(s)
        cleaned == Trim(ReplaceAll(
                     StripMonth(
                       ReplaceAllCI(
                         ReplaceAll(s, << <<"$">>, <<"€">>, <<"£">> >>, 1),
                         << <<"u","s","d">>, <<"e","u","r">>,
                            <<"c","a","d">>, <<"g","b","p">> >>, 1), 1),
                     << <<",">> >>, 1))
        run == FirstNumRun(cleaned)
        amount == IF run # <<>> THEN Some(ParseFloat(run)) ELSE None
    IN  IF Includes(s, <<"$">>) \/ Includes(low, <<"u","s","d">>)
        THEN [threw |-> FALSE, amount |-> amount, currency |-> Some("USD")]
        ELSE IF Includes(s, <<"€">>)
        THEN [threw |-> FALSE, amount |-> amount, currency |-> Some("EUR")]
        ELSE [threw |-> TRUE, amount |-> None, currency |-> None]

\* parsePrice of the price texts of the messages, evaluated once
ParsedPrices ==
  [p \in {"$2,000/month", "€1850/month", "Contact for price",
          "USD on request"} |->
     parsePrice(Some(Chars[p]))]
ParsedPrice(price_text) ==
  IF IsSome(price_text) THEN ParsedPrices[Val(price_text)]
  ELSE parsePrice(None)

\* convertToUSD, scaled by AmountScale * RateScale
convertToUSD(amount, currency) ==
  CASE currency = "USD" -> Some(amount * 100)
    [] currency = "EUR" -> Some(amount * 108)
    [] currency = "CAD" -> Some(amount * 73)
    [] currency = "GBP" -> Some(amount * 126)
    [] OTHER -> None

\* JavaScript truthiness of a parsed number: null, NaN and 0 are falsy
Truthy(n) == IsSome(n) /\ Val(n) # NaN /\ Val(n) # 0

\* ------------------------------------------------- pg_trgm similarity()
IsAlnum(c) == IsDigit(c) \/ \E i \in 1..26 : Lower[i] = c

\* the words of a lower-cased text: maximal runs of letters and digits
RECURSIVE Words(_, _)
Words(s, cur) ==
  IF s = <<>> THEN (IF cur = <<>> THEN <<>> ELSE <<cur>>)
  ELSE IF IsAlnum(Head(s)) THEN Words(Tail(s), Append(cur, Head(s)))
  ELSE (IF cur = <<>> THEN <<>> ELSE <<cur>>) \o Words(Tail(s), <<>>)

\* the trigrams of one word, padded with two blanks before and one after
WordTrigrams(w) ==
  LET padded == <<" ", " ">> \o w \o <<" ">>
  IN  {SubSeq(padded, i, i + 2) : i \in 1..(Len(padded) - 2)}

\* show_trgm(text): the set of trigrams of its words
ShowTrgm(text) ==
  LET ws == Words(ToLowerCase(Chars[text]), <<>>)
  IN  UNION {WordTrigrams(ws[i]) : i \in 1..Len(ws)}

\* the trigrams of the titles of the messages, evaluated once
TitleTrigrams ==
  [t \in {"Sunny 2BR", "Sunny 2BR Apt", "Untitled Listing", "Loft"} |->
     ShowTrgm(t)]
Trigrams(text) == TitleTrigrams[text]

\* similarity(a, b) = |shared trigrams| / |all trigrams|, as a fraction
SimilarityNum(a, b) == Cardinality(Trigrams(a) \cap Trigrams(b))
SimilarityDen(a, b) == Cardinality(Trigrams(a) \cup Trigrams(b))

\* dedupe thresholds (index.ts:19-21); coordinates are in units of 0.0001
\* degree, TITLE_SIMILARITY_THRESHOLD is SimThresholdNum / SimThresholdDen
LAT_DEG_THRESHOLD == 1
LON_DEG_THRESHOLD == 1
SimThresholdNum == 6
SimThresholdDen == 10

\* characters of the property types and amenity texts that occur in the
\* messages and in the query strings
FilterChars ==
  [ p \in {"", "Apartment", " House ", "House", "S1", "Apartment,House",
           "Pool", " Gym ", "Gym", "pool", "gym", "pool, gym", "Pool,GYM",
           " , "} |->
    CASE p = "" -> <<>>
      [] p = "Apartment" -> <<"A","p","a","r","t","m","e","n","t">>
      [] p = " House " -> <<" ","H","o","u","s","e"," ">>
      [] p = "House" -> <<"H","o","u","s","e">>
      [] p = "Gym" -> <<"G","y","m">>
      [] p = "gym" -> <<"g","y","m">>
      [] p = "S1" -> <<"S","1">>
      [] p = "Apartment,House" ->
           <<"A","p","a","r","t","m","e","n","t",",","H","o","u","s","e">>
      [] p = "Pool" -> <<"P","o","o","l">>
      [] p = " Gym " -> <<" ","G","y","m"," ">>
      [] p = "pool" -> <<"p","o","o","l">>
      [] p = "pool, gym" -> <<"p","o","o","l",","," ","g","y","m">>
      [] p = "Pool,GYM" -> <<"P","o","o","l",",","G","Y","M">>
      [] p = " , " -> <<" ",","," ">> ]

\* String.prototype.split(','): the pieces between the commas, the empty
\* ones included
RECURSIVE SplitComma(_, _)
SplitComma(s, piece) ==
  IF s = <<>> THEN <<piece>>
  ELSE IF Head(s) = "," THEN <<piece>> \o SplitComma(Tail(s), <<>>)
  ELSE SplitComma(Tail(s), Append(piece, Head(s)))

\* the string that has these characters
Text(chars) == CHOOSE p \in DOMAIN FilterChars : FilterChars[p] = chars
Texts(items) == [i \in 1..Len(items) |-> Text(items[i])]

\* split(',').map(a => a.trim()).filter(a => a.length > 0)
TrimmedItems(s) ==
  Texts(SelectSeq([i \in 1..Len(SplitComma(s, <<>>)) |->
                     Trim(SplitComma(s, <<>>)[i])],
                  LAMBDA item : item # <<>>))

\* ---------------------------------------------------------------- messages
\* content of a queue message: kind is "invalid" (not JSON), "null" (the
\* JSON literal null), "scalar" (a JSON number, string, boolean or array) or
\* "object"; the other fields are the members of a JSON object
Payload(kind, url, source, title, price, location) ==
  [kind |-> kind, source_url |-> url, source_name |-> source, title |-> title,
   price_text |-> price, location_text |-> location,
   property_type |-> None, amenities |-> None]
\* amenities of a message: an array of strings, or one string
AmenityArray(items) == Some([isArray |-> TRUE, items |-> items, str |-> ""])
AmenityString(str) == Some([isArray |-> FALSE, items |-> <<>>, str |-> str])
\* a message that also carries a property type and amenities
Typed(rawData, property_type, amenities) ==
  [rawData EXCEPT !.property_type = property_type, !.amenities = amenities]

NotJson    == Payload("invalid", None, None, None, None, None)
JsonNull   == Payload("null", None, None, None, None, None)
JsonScalar == Payload("scalar", None, None, None, None, None)
EmptyObject == Payload("object", None, None, None, None, None)
Scenario1 ==
  Payload("object", Some("u1"), Some("S1"), Some("Sunny 2BR"),
          Some("$2,000/month"), Some("Seattle, WA"))
Scenario2 ==
  Payload("object", Some("u2"), Some("S2"), Some("Sunny 2BR Apt"),
          Some("€1850/month"), Some("Seattle, Washington"))
\* the listing of scenario 1 scraped again by another source, which shows
\* no amount
Relisted ==
  Payload("object", Some("u1"), Some("S2"), Some("Sunny 2BR"),
          Some("USD on request"), Some("Seattle, WA"))
NoPrice ==
  Payload("object", Some("u2"), Some("S2"), Some("Loft"),
          Some("Contact for price"), None)

MessagePool ==
  {NotJson, JsonNull, JsonScalar, EmptyObject, Scenario1, Scenario2,
   Relisted, NoPrice}

\* answers of the external geocoder: it throws, returns no candidate, or
\* returns a first candidate (coordinates in units of 0.0001 degree)
GeoResult(outcome, lat, lon) ==
  [outcome |-> outcome, latitude |-> lat, longitude |-> lon]
GeocoderFailures == {GeoResult("throw", 0, 0), GeoResult("empty", 0, 0)}
GeocoderCandidates(address) ==
  IF address = "Seattle, WA"
  THEN {GeoResult("found", 476062, 0 - 1223321)}
  ELSE {GeoResult("found", 476063, 0 - 1223321)}

\* values of Date.now()/Math.random() synthetic urls, all different
SyntheticUrls ==
  <<"missing_url_1", "missing_url_2", "missing_url_3", "missing_url_4",
    "missing_url_5", "missing_url_6">>

\* ------------------------------------------------------------------- state
VARIABLES
  msgs,      \* the messages published so far; a message's tag is its index
  queue,     \* tags of the messages waiting in the queue, oldest first
  handlers,  \* per message, its consume callback: position and dataToStore
  pg,        \* rows of the relational table properties
  es,        \* documents of the search index
  idSeq,     \* last value of the serial sequence properties_id_seq
  now,       \* timestamp of the latest relational statement
  synth,     \* number of synthetic source_urls generated so far
  faults,    \* number of failures of external services so far
  proc,      \* the worker process: "running", "ending" (a signal handler
             \* awaits pgClient.end()) or "exited"
  priceInput, \* the argument of a direct call of parsePrice
  priceResult, \* the value that call returned, once it has returned
  reqs,      \* the HTTP requests the API service received so far, each with
             \* its query, the await its handler is suspended at, the
             \* handler's locals and the response once it is sent
  cache,     \* the response cache (Redis): entries with their expiry time
  clock,     \* the time of the cache store, in seconds
  searches,  \* the queries the API sent to the search store, in order
  keyInput,  \* the arguments of direct calls of generateCacheKey
  keyResult, \* the keys those calls returned, once they have returned
  limiter,   \* the rate limiter: absent until initializeRateLimiter has
             \* created it, then per client IP the points consumed and
             \* the second the key expires in the store
  bedroomsInput,  \* the argument of a direct call of parseBedrooms
  bedroomsResult, \* the value that call returned, once it has returned
  log        \* per message, the history of its callback: the events in
             \* order, the ack/nack calls, the source_url it was stored
             \* under, the id the upsert returned, and whether another
             \* callback for the same source_url was in flight meanwhile

vars == <<msgs, queue, handlers, pg, es, idSeq, now, synth, faults, log,
          proc, priceInput, priceResult, reqs, cache, clock, searches,
          keyInput, keyResult, limiter, bedroomsInput, bedroomsResult>>

\* the state of the API service
apiVars == <<reqs, cache, clock, searches, keyInput, keyResult, limiter,
             bedroomsInput, bedroomsResult>>

\* the messages published so far, by tag
Tags == 1..Len(msgs)

\* position of a callback: "queued" before the message is delivered, then
\* the await it is suspended at, "settled" after the ack or nack
Queued == [pc |-> "queued", data |-> None]
Settled == [pc |-> "settled", data |-> None]
InFlight == {tag \in Tags : handlers[tag].pc \notin {"queued", "settled"}}

\* the API service before its first request, with an empty cache
ApiIdle ==
  /\ reqs = <<>>
  /\ cache = <<>>
  /\ clock = 0
  /\ searches = <<>>
  /\ keyInput = None
  /\ keyResult = None
  /\ limiter = None

\* the pipeline before the first message
InitPipeline ==
  /\ msgs = <<>>
  /\ queue = <<>>
  /\ handlers = <<>>
  /\ pg = {}
  /\ es = {}
  /\ idSeq = 0
  /\ now = 0
  /\ synth = 0
  /\ faults = 0
  /\ log = <<>>
  /\ proc = "running"

Init ==
  /\ InitPipeline
  /\ priceInput = None
  /\ priceResult = None
  /\ bedroomsInput = None
  /\ bedroomsResult = None
  /\ ApiIdle

\* a producer publishes a message to the durable queue
Publish(m) ==
  /\ Len(msgs) < MaxPublish
  /\ msgs' = Append(msgs, m)
  /\ queue' = Append(queue, Len(msgs) + 1)
  /\ handlers' = Append(handlers, Queued)
  /\ log' = Append(log, [events |-> <<>>, decisions |-> <<>>, url |-> None,
                          propertyId |-> None, overlapped |-> FALSE])
  /\ UNCHANGED <<pg, es, idSeq, now, synth, faults, proc, priceInput, priceResult, apiVars>>

\* ---------------------------------------------------- the consume callback
Logged(tag, evs) ==
  [log EXCEPT ![tag].events = log[tag].events \o evs]

\* the finally block: channel.ack(msg) or channel.nack(msg, false, false)
Settle(tag, evs, processingSuccess) ==
  [log EXCEPT ![tag].events = log[tag].events \o evs,
              ![tag].decisions =
                 Append(log[tag].decisions,
                        IF processingSuccess
                        THEN [kind |-> "ack", requeue |-> FALSE]
                        ELSE [kind |-> "nack", requeue |-> FALSE])]

\* the callback of message tag starts to process source_url url
SameUrlInFlight(url) ==
  {t \in InFlight : Val(handlers[t].data).source_url = url}
Started(tag, url, evs) ==
  [t \in Tags |->
     IF t = tag
     THEN [log[t] EXCEPT !.events = log[t].events \o evs,
                         !.url = Some(url),
                         !.overlapped = SameUrlInFlight(url) # {}]
     ELSE IF t \in SameUrlInFlight(url)
          THEN [log[t] EXCEPT !.overlapped = TRUE]
          ELSE log[t]]

\* a || b on nullable strings
OrElse(a, b) == IF IsSome(a) THEN a ELSE b

\* (variant: a missing amount counts as 0 and a missing currency as USD)
NormalizedPriceUsd_Defaults(parsedPrice) ==
  convertToUSD(IF Truthy(parsedPrice.amount) THEN Val(parsedPrice.amount)
               ELSE 0,
               IF IsSome(parsedPrice.currency) THEN Val(parsedPrice.currency)
               ELSE "USD")

\* normalized_price_usd: converted only when the amount is truthy and the
\* currency is known
NormalizedPriceUsd(parsedPrice) ==
  IF Truthy(parsedPrice.amount) /\ IsSome(parsedPrice.currency)
  THEN convertToUSD(Val(parsedPrice.amount), Val(parsedPrice.currency))
  ELSE None

\* processedData.property_type: the trimmed text, null when it is empty or
\* no string
PropertyTypeOf(property_type_raw) ==
  IF IsSome(property_type_raw)
     /\ Trim(FilterChars[Val(property_type_raw)]) # <<>>
  THEN Some(Text(Trim(FilterChars[Val(property_type_raw)])))
  ELSE None

\* processedData.amenities: the trimmed non-empty strings of an array, or
\* the trimmed non-empty pieces of a comma-separated string
AmenitiesOf(amenities_raw) ==
  IF ~IsSome(amenities_raw) THEN <<>>
  ELSE IF Val(amenities_raw).isArray
  THEN Texts(SelectSeq([i \in 1..Len(Val(amenities_raw).items) |->
                          Trim(FilterChars[Val(amenities_raw).items[i]])],
                       LAMBDA a : a # <<>>))
  ELSE TrimmedItems(FilterChars[Val(amenities_raw).str])

\* normalizeAndProcessData up to the geocoder call
Normalized(rawData, t, url) ==
  LET parsedPrice == ParsedPrice(rawData.price_text)
      location == rawData.location_text
  IN  [title |-> Val(OrElse(rawData.title, Some("Untitled Listing"))),
       property_type |-> PropertyTypeOf(rawData.property_type),
       amenities |-> AmenitiesOf(rawData.amenities),
       source_url |-> url,
       source_name |-> Val(OrElse(rawData.source_name, Some("UnknownScraper"))),
       scrape_timestamp |-> t,
       price_original_numeric |-> parsedPrice.amount,
       currency_original |-> parsedPrice.currency,
       price_original_textual_display |-> rawData.price_text,
       normalized_price_usd |-> NormalizedPriceUsd(parsedPrice),
       location_text |-> location,
       address_raw |-> location,
       latitude |-> None,
       longitude |-> None,
       geocoded_data_raw |-> None,
       status |-> "active",
       duplicate_of_property_id |-> None]

\* findPotentialDuplicates returns [] without a query when a coordinate or
\* the title is missing
SkipsDuplicateCheck(d) ==
  ~IsSome(d.latitude) \/ ~IsSome(d.longitude) \/ Chars[d.title] = <<>>

\* the callback is invoked with a message: JSON.parse and the synchronous
\* part of normalizeAndProcessData
Consume(tag) ==
  /\ proc # "exited"
  /\ queue # <<>> /\ tag = Head(queue)
  /\ Cardinality(InFlight) < MaxHandlers
  /\ LET rawData == msgs[tag]
         hasUrl == IsSome(rawData.source_url)
         url == IF hasUrl THEN Val(rawData.source_url)
                ELSE SyntheticUrls[synth + 1]
         d == Normalized(rawData, now, url)
     IN  /\ queue' = Tail(queue)
         /\ CASE rawData.kind = "invalid" ->
                   \* JSON.parse throws
                   /\ log' = Settle(tag, <<"delivered">>, FALSE)
                   /\ handlers' = [handlers EXCEPT ![tag] = Settled]
                   /\ UNCHANGED synth
              [] rawData.kind = "null" ->
                   \* rawData.title throws a TypeError
                   /\ log' = Settle(tag, <<"delivered", "parsed">>, FALSE)
                   /\ handlers' = [handlers EXCEPT ![tag] = Settled]
                   /\ UNCHANGED synth
              [] OTHER ->
                   /\ synth' = IF hasUrl THEN synth ELSE synth + 1
                   /\ IF ParsedPrice(rawData.price_text).threw
                      THEN /\ log' = Settle(tag, <<"delivered", "parsed">>, FALSE)
                           /\ handlers' = [handlers EXCEPT ![tag] = Settled]
                      ELSE /\ log' = Started(tag, url,
                                          <<"delivered", "parsed">> \o
                                          (IF IsSome(d.address_raw) THEN <<>>
                                           ELSE <<"dup_skipped">>))
                           /\ handlers' =
                                [handlers EXCEPT ![tag] =
                                   [pc |-> IF IsSome(d.address_raw)
                                           THEN "geocode" ELSE "upsert",
                                    data |-> Some(d)]]
  /\ UNCHANGED <<msgs, pg, es, idSeq, now, faults, proc, priceInput, priceResult, apiVars>>

\* an external service may fail while the fault budget lasts
Failing(ok) ==
  /\ ~ok => faults < MaxFaults
  /\ faults' = IF ok THEN faults ELSE faults + 1

\* a statement on pgClient may fail likewise; once a signal handler has
\* called pgClient.end() a statement is rejected, unless the server ran it
\* before the connection went down
PgFailing(ok) ==
  /\ ~ok => (faults < MaxFaults \/ proc = "ending")
  /\ faults' = IF ok \/ proc = "ending" THEN faults ELSE faults + 1

\* (variant: an exception of the geocoder is not caught)
PcAfterGeocode_Rethrow(r, d) ==
  IF r.outcome = "throw" THEN "settled"
  ELSE IF SkipsDuplicateCheck(d) THEN "upsert" ELSE "dupquery"

\* where the callback continues after the geocoder call: the try/catch around
\* it swallows an exception, and findPotentialDuplicates returns at once
\* when it skips the query
PcAfterGeocode(r, d) ==
  IF SkipsDuplicateCheck(d) THEN "upsert" ELSE "dupquery"

\* geocoder.geocode resolves or rejects; then findPotentialDuplicates starts
Geocode(tag, r) ==
  /\ proc # "exited"
  /\ tag \in Tags /\ handlers[tag].pc = "geocode"
  /\ r \in GeocoderFailures \cup
            GeocoderCandidates(Val(Val(handlers[tag].data).address_raw))
  /\ Failing(r.outcome = "found")
  /\ LET d0 == Val(handlers[tag].data)
         d  == IF r.outcome # "found" THEN d0
               ELSE [d0 EXCEPT !.latitude = Some(r.latitude),
                               !.longitude = Some(r.longitude),
                               !.geocoded_data_raw = Some(r)]
     IN  /\ handlers' =
               [handlers EXCEPT ![tag].data = Some(d),
                                ![tag].pc = PcAfterGeocode(r, d)]
         /\ log' = Logged(tag, <<"geo_" \o r.outcome>> \o
                                (IF SkipsDuplicateCheck(d)
                                 THEN <<"dup_skipped">> ELSE <<>>))
  /\ UNCHANGED <<msgs, queue, pg, es, idSeq, now, synth, proc, priceInput, priceResult, apiVars>>

\* (variant: the query compares the listing with those of its own source)
IsCandidate_SameSource(row, d) ==
  /\ row.status = "active"
  /\ row.source_name = d.source_name
  /\ IsSome(row.latitude) /\ IsSome(row.longitude)
  /\ Val(row.latitude) >= Val(d.latitude) - LAT_DEG_THRESHOLD
  /\ Val(row.latitude) <= Val(d.latitude) + LAT_DEG_THRESHOLD
  /\ Val(row.longitude) >= Val(d.longitude) - LON_DEG_THRESHOLD
  /\ Val(row.longitude) <= Val(d.longitude) + LON_DEG_THRESHOLD
  /\ SimilarityNum(row.title, d.title) * SimThresholdDen
       >= SimThresholdNum * SimilarityDen(row.title, d.title)

\* the WHERE clause of the duplicate query
IsCandidate(row, d) ==
  /\ row.status = "active"
  /\ row.source_name # d.source_name
  /\ IsSome(row.latitude) /\ IsSome(row.longitude)
  /\ Val(row.latitude) >= Val(d.latitude) - LAT_DEG_THRESHOLD
  /\ Val(row.latitude) <= Val(d.latitude) + LAT_DEG_THRESHOLD
  /\ Val(row.longitude) >= Val(d.longitude) - LON_DEG_THRESHOLD
  /\ Val(row.longitude) <= Val(d.longitude) + LON_DEG_THRESHOLD
  /\ SimilarityNum(row.title, d.title) * SimThresholdDen
       >= SimThresholdNum * SimilarityDen(row.title, d.title)

\* ORDER BY title_similarity DESC, scrape_timestamp DESC: a precedes b
Precedes(a, b, d) ==
  LET an == SimilarityNum(a.title, d.title)
      ad == SimilarityDen(a.title, d.title)
      bn == SimilarityNum(b.title, d.title)
      bd == SimilarityDen(b.title, d.title)
  IN  \/ an * bd > bn * ad
      \/ an * bd = bn * ad /\ a.scrape_timestamp > b.scrape_timestamp

\* (variant: the result is read from its end)
FirstCandidates_Last(rows, d) ==
  LET c == {row \in rows : IsCandidate(row, d)}
  IN  {a \in c : \A b \in c : ~Precedes(a, b, d)}

\* the rows that may come first in the result of the duplicate query
FirstCandidates(rows, d) ==
  LET c == {row \in rows : IsCandidate(row, d)}
  IN  {a \in c : \A b \in c : ~Precedes(b, a, d)}

\* the duplicate query answers (ok) or fails (the catch returns [])
DupQuery(tag, ok) ==
  /\ proc # "exited"
  /\ tag \in Tags /\ handlers[tag].pc = "dupquery"
  /\ PgFailing(ok)
  /\ LET d == Val(handlers[tag].data)
         first == IF ok THEN FirstCandidates(pg, d) ELSE {}
     IN  IF first = {}
         THEN /\ handlers' = [handlers EXCEPT ![tag].pc = "upsert"]
              /\ log' = Logged(tag, <<IF ok THEN "dup_none" ELSE "dup_fail">>)
         ELSE /\ \E primaryDuplicate \in first :
                   handlers' =
                     [handlers EXCEPT
                        ![tag].pc = "upsert",
                        ![tag].data = Some([d EXCEPT
                           !.status = "potential_duplicate",
                           !.duplicate_of_property_id =
                              Some(primaryDuplicate.id)])]
              /\ log' = Logged(tag, <<"dup_found">>)
  /\ UNCHANGED <<msgs, queue, pg, es, idSeq, now, synth, proc, priceInput, priceResult, apiVars>>

\* the column values the INSERT statement receives from dataToStore
Columns ==
  {"title", "source_url", "source_name", "scrape_timestamp",
   "price_original_numeric", "currency_original",
   "price_original_textual_display", "normalized_price_usd",
   "location_text", "address_raw", "latitude", "longitude",
   "geocoded_data_raw", "property_type", "amenities", "status",
   "duplicate_of_property_id"}

\* a new row: id from the sequence, created_at and updated_at default to
\* CURRENT_TIMESTAMP
InsertedRow(d, id, t) ==
  [c \in Columns \cup {"id", "created_at", "updated_at"} |->
     CASE c = "id" -> id
       [] c = "created_at" -> t
       [] c = "updated_at" -> t
       [] OTHER -> d[c]]

\* (variant: the conflict branch does not touch updated_at and there is no
\* trigger)
UpdatedRow_KeepsTimestamp(old, d, t) ==
  [c \in Columns \cup {"id", "created_at", "updated_at"} |->
     CASE c = "id" -> old.id
       [] c = "created_at" -> old.created_at
       [] c = "updated_at" -> old.updated_at
       [] OTHER -> d[c]]

\* ON CONFLICT (source_url) DO UPDATE SET <every column> = EXCLUDED.<column>,
\* updated_at = CURRENT_TIMESTAMP (and trigger_set_timestamp)
UpdatedRow(old, d, t) ==
  [c \in Columns \cup {"id", "created_at", "updated_at"} |->
     CASE c = "id" -> old.id
       [] c = "created_at" -> old.created_at
       [] c = "updated_at" -> t
       [] OTHER -> d[c]]

\* (variant: a plain INSERT without the unique constraint on source_url)
UpsertRows_NoConflict(rows, d, id, t) == rows \cup {InsertedRow(d, id, t)}

\* (variant: ON CONFLICT (source_url) DO NOTHING)
UpsertRows_DoNothing(rows, d, id, t) ==
  IF \E old \in rows : old.source_url = d.source_url
  THEN rows
  ELSE rows \cup {InsertedRow(d, id, t)}

\* (variant: the statement also touches the row the record is a duplicate
\* of)
UpsertRows_TouchPeer(rows, d, id, t) ==
  LET touched ==
        {IF Some(old.id) = d.duplicate_of_property_id
              /\ old.source_url # d.source_url
         THEN [old EXCEPT !.updated_at = t] ELSE old : old \in rows}
  IN  IF \E old \in touched : old.source_url = d.source_url
      THEN {IF old.source_url = d.source_url THEN UpdatedRow(old, d, t)
            ELSE old : old \in touched}
      ELSE touched \cup {InsertedRow(d, id, t)}

\* the table after INSERT ... ON CONFLICT (source_url) DO UPDATE
UpsertRows(rows, d, id, t) ==
  IF \E old \in rows : old.source_url = d.source_url
  THEN {IF old.source_url = d.source_url THEN UpdatedRow(old, d, t) ELSE old :
          old \in rows}
  ELSE rows \cup {InsertedRow(d, id, t)}

\* RETURNING id
ReturnedId(rows, d) ==
  (CHOOSE row \in rows : row.source_url = d.source_url).id

\* (variant: the error of the upsert is swallowed and the callback goes on)
PcAfterUpsert_Swallow(ok) == "index"

\* where the callback continues after the upsert: a rejected query throws
\* past the index request into the catch block
PcAfterUpsert(ok) == IF ok THEN "index" ELSE "settled"

\* the relational upsert answers (ok) or fails; on failure the catch and
\* finally blocks nack the message
Upsert(tag, ok) ==
  /\ proc # "exited"
  /\ tag \in Tags /\ handlers[tag].pc = "upsert"
  /\ PgFailing(ok)
  /\ LET d == Val(handlers[tag].data)
         next == PcAfterUpsert(ok)
         evs == <<"normalized", IF ok THEN "pg_ok" ELSE "pg_fail">>
     IN  /\ handlers' = [handlers EXCEPT ![tag] =
                           IF next = "settled" THEN Settled
                           ELSE [handlers[tag] EXCEPT !.pc = next]]
         /\ IF ok
            THEN /\ pg' = UpsertRows(pg, d, idSeq + 1, now + 1)
                 /\ idSeq' = idSeq + 1
                 /\ now' = now + 1
                 /\ log' = [Logged(tag, evs) EXCEPT
                              ![tag].propertyId =
                                 Some(ReturnedId(UpsertRows(pg, d, idSeq + 1, now + 1), d))]
            ELSE /\ log' = IF next = "settled" THEN Settle(tag, evs, FALSE)
                           ELSE Logged(tag, evs)
                 /\ UNCHANGED <<pg, idSeq, now>>
  /\ UNCHANGED <<msgs, queue, es, synth, proc, priceInput, priceResult, apiVars>>

\* (variant: the document is dataToStore without location_coordinates)
EsDocument_Plain(d) ==
  [c \in Columns \cup {"location_coordinates"} |->
     IF c = "location_coordinates" THEN None ELSE d[c]]

\* esDocument: dataToStore plus location_coordinates when both coordinates
\* are present
EsDocument(d) ==
  [c \in Columns \cup {"location_coordinates"} |->
     IF c = "location_coordinates"
     THEN (IF IsSome(d.latitude) /\ IsSome(d.longitude)
           THEN Some([lat |-> Val(d.latitude), lon |-> Val(d.longitude)])
           ELSE None)
     ELSE d[c]]

\* the index after esClient.index({id, body}): the document with that id is
\* created or replaced
IndexDocs(docs, id, body) ==
  {doc \in docs : doc.id # id} \cup {[id |-> id, body |-> body]}

\* (variant: processingSuccess is set before the index request is awaited)
IndexSettled_Early(tag, ok) ==
  Settle(tag, <<"es_issued", IF ok THEN "es_ok" ELSE "es_fail">>, TRUE)

\* processingSuccess = true is reached only when the index request
\* succeeded; the finally block acks or nacks accordingly
IndexSettled(tag, ok) ==
  Settle(tag, <<"es_issued", IF ok THEN "es_ok" ELSE "es_fail">>, ok)

\* (variant: a failed index request deletes the row again)
PgAfterIndex_Rollback(rows, d, ok) ==
  IF ok THEN rows ELSE {row \in rows : row.source_url # d.source_url}

\* the table after the index request: the callback issues no relational
\* statement after the upsert
PgAfterIndex(rows, d, ok) == rows

\* the index request answers (ok) or fails; then the finally block acks or
\* nacks the message
Index(tag, ok) ==
  /\ proc # "exited"
  /\ tag \in Tags /\ handlers[tag].pc = "index"
  /\ Failing(ok)
  /\ LET d == Val(handlers[tag].data)
     IN  /\ es' = IF ok THEN IndexDocs(es, d.source_url, EsDocument(d)) ELSE es
         /\ pg' = PgAfterIndex(pg, d, ok)
  /\ log' = IndexSettled(tag, ok)
  /\ handlers' = [handlers EXCEPT ![tag] = Settled]
  /\ UNCHANGED <<msgs, queue, idSeq, now, synth, proc, priceInput, priceResult, apiVars>>

\* the process receives SIGINT or SIGTERM: the handler calls pgClient.end()
\* and waits for it; the consumer is not cancelled
Signals == {"SIGINT", "SIGTERM"}
OnSignal(signal) ==
  /\ signal \in Signals
  /\ proc = "running"
  /\ proc' = "ending"
  /\ UNCHANGED <<msgs, queue, handlers, pg, es, idSeq, now, synth, faults,
                 log, priceInput, priceResult, apiVars>>

\* pgClient.end() has settled: process.exit(0); the callbacks that are
\* suspended at an await never resume
Exit ==
  /\ proc = "ending"
  /\ proc' = "exited"
  /\ UNCHANGED <<msgs, queue, handlers, pg, es, idSeq, now, synth, faults,
                 log, priceInput, priceResult, apiVars>>

\* the tags a behaviour can use
AllTags == 1..MaxPublish
Addresses == {"Seattle, WA", "Seattle, Washington"}

Next ==
  \/ \E m \in MessagePool : Publish(m)
  \/ \E tag \in AllTags : Consume(tag)
  \/ \E tag \in AllTags :
       \E r \in GeocoderFailures \cup
                UNION {GeocoderCandidates(a) : a \in Addresses} :
         Geocode(tag, r)
  \/ \E tag \in AllTags, ok \in BOOLEAN : DupQuery(tag, ok)
  \/ \E tag \in AllTags, ok \in BOOLEAN : Upsert(tag, ok)
  \/ \E tag \in AllTags, ok \in BOOLEAN : Index(tag, ok)

Spec == Init /\ [][Next]_vars

\* the worker when the broker delivers a message only after the previous
\* one is settled, the geocoder answers and the duplicate query succeeds
NextSequential ==
  \/ \E m \in MessagePool : Publish(m)
  \/ \E tag \in AllTags : InFlight = {} /\ Consume(tag)
  \/ \E tag \in AllTags :
       \E r \in UNION {GeocoderCandidates(a) : a \in Addresses} :
         Geocode(tag, r)
  \/ \E tag \in AllTags : DupQuery(tag, TRUE)
  \/ \E tag \in AllTags, ok \in BOOLEAN : Upsert(tag, ok)
  \/ \E tag \in AllTags, ok \in BOOLEAN : Index(tag, ok)

SpecSequential == Init /\ [][NextSequential]_vars

\* the statuses of the column besides those the worker writes
RetiredStatuses == {"merged", "inactive"}

\* an operator retires a listing outside the worker: the status of its row
\* is set, and (mirrored) that of its document too
SetStatus(url, status, mirrored) ==
  /\ \E row \in pg :
       /\ row.source_url = url
       /\ row.status \notin RetiredStatuses
       /\ pg' = (pg \ {row}) \cup {[row EXCEPT !.status = status]}
  /\ es' = IF mirrored
           THEN {[doc EXCEPT !.body.status =
                    IF doc.id = url THEN status ELSE doc.body.status] :
                   doc \in es}
           ELSE es
  /\ UNCHANGED <<msgs, queue, handlers, idSeq, now, synth, faults, log, proc,
                 priceInput, priceResult, apiVars>>

\* the sequential worker next to an operator who retires listings
SpecStatus ==
  Init /\ [][\/ NextSequential
             \/ \E url \in {"u1", "u2"}, status \in RetiredStatuses,
                   mirrored \in BOOLEAN : SetStatus(url, status, mirrored)]_vars

\* the worker with its signal handlers
NextShutdown ==
  \/ Next
  \/ \E signal \in Signals : OnSignal(signal)
  \/ Exit

SpecShutdown == Init /\ [][NextShutdown]_vars

\* ------------------------------------------------- parsePrice called alone
\* price texts: a currency symbol, an amount, a currency code and a rent
\* period, each of which may be missing, or words without any of them
PriceSymbols == {<<>>, <<"$">>, <<"€">>, <<"£">>}
PriceAmounts ==
  {<<>>, <<"8","0","0">>, <<"1",",","5","0","0",".","5","0">>, <<"0">>}
PriceCodes ==
  {<<>>, <<" ","U","S","D">>, <<" ","u","s","d">>, <<" ","E","U","R">>,
   <<" ","C","A","D">>, <<" ","G","B","P">>}
PricePeriods ==
  {<<>>, <<"/","m","o","n","t","h">>, <<" ","p","e","r"," ","m","o","n","t","h">>}
PriceTexts ==
  {sym \o amt \o code \o per :
     sym \in PriceSymbols, amt \in PriceAmounts, code \in PriceCodes,
     per \in PricePeriods}
    \cup {Chars["Contact for price"]}
\* the arguments of parsePrice: null or a string
PriceArguments == {None} \cup {Some(t) : t \in PriceTexts}

InitParse ==
  /\ InitPipeline
  /\ priceInput \in {Some(a) : a \in PriceArguments}
  /\ priceResult = None
  /\ bedroomsInput = None
  /\ bedroomsResult = None
  /\ ApiIdle

\* PropertyUtils.parsePrice(priceString) is called and returns or throws
CallParsePrice ==
  /\ IsSome(priceInput) /\ ~IsSome(priceResult)
  /\ priceResult' = Some(parsePrice(Val(priceInput)))
  /\ UNCHANGED <<msgs, queue, handlers, pg, es, idSeq, now, synth, faults,
                 log, proc, priceInput, apiVars>>

NextParse == CallParsePrice

SpecParse == InitParse /\ [][NextParse]_vars

\* ------------------------------------------------------- parseBedrooms
\* (variant: the pattern knows the word bed only)
BedWordAt_BedOnly(s, k) == MatchAt(s, <<"b","e","d">>, k)
\* (bed|br|bedroom) at position k
BedWordAt(s, k) ==
  \/ MatchAt(s, <<"b","e","d">>, k)
  \/ MatchAt(s, <<"b","r">>, k)
  \/ MatchAt(s, <<"b","e","d","r","o","o","m">>, k)

\* /(\d+)\s*(bed|br|bedroom)/ matches from position i: the digits from i on,
\* any white space, one of the words
BedMatchAt(s, i) ==
  /\ IsDigit(s[i])
  /\ BedWordAt(s, i + Len(DigitPrefix(SubSeq(s, i, Len(s))))
                   + SpaceRun(s, i + Len(DigitPrefix(SubSeq(s, i, Len(s))))))

\* PropertyUtils.parseBedrooms: a number, or None for null
parseBedrooms(bedroomString) ==
  IF ~IsSome(bedroomString) \/ Val(bedroomString) = <<>> THEN None
  ELSE IF Includes(ToLowerCase(Val(bedroomString)), <<"s","t","u","d","i","o">>)
  THEN Some(0)
  ELSE IF \E i \in 1..Len(Val(bedroomString)) :
            BedMatchAt(ToLowerCase(Val(bedroomString)), i)
  THEN Some(DigitsVal(DigitPrefix(SubSeq(ToLowerCase(Val(bedroomString)),
         CHOOSE i \in 1..Len(Val(bedroomString)) :
           /\ BedMatchAt(ToLowerCase(Val(bedroomString)), i)
           /\ \A j \in 1..(i - 1) :
                ~BedMatchAt(ToLowerCase(Val(bedroomString)), j),
         Len(Val(bedroomString))))))
  ELSE IF \A i \in 1..Len(Val(bedroomString)) : IsDigit(Val(bedroomString)[i])
  THEN Some(DigitsVal(Val(bedroomString)))
  ELSE None

\* the texts of the calls, each composed of a lead, a number, white space,
\* a word and a tail; and null
BedroomLeads == {<<>>, <<"S","t","u","d","i","o"," ">>, <<"a","p","p","r","o","x"," ">>, <<" ">>}
BedroomNumbers == {<<>>, <<"3">>, <<"1","2">>}
BedroomSpaces == {<<>>, <<" ">>, <<" "," ">>}
BedroomWords ==
  {<<>>, <<"b","e","d">>, <<"B","e","d","s">>, <<"B","R">>,
   <<"B","e","d","r","o","o","m">>, <<"b","a","t","h">>,
   <<"S","T","U","D","I","O">>}
BedroomTails == {<<>>, <<" ","a","p","t">>, <<" ","5"," ","b","r">>}
BedroomCalls ==
  {[isNull |-> FALSE, lead |-> lead, number |-> number, space |-> space,
    word |-> word, tail |-> tail] :
     lead \in BedroomLeads, number \in BedroomNumbers,
     space \in BedroomSpaces, word \in BedroomWords, tail \in BedroomTails}
    \cup {[isNull |-> TRUE, lead |-> <<>>, number |-> <<>>, space |-> <<>>,
           word |-> <<>>, tail |-> <<>>]}
\* the argument of a call
BedroomArgument(call) ==
  IF call.isNull THEN None
  ELSE Some(call.lead \o call.number \o call.space \o call.word \o call.tail)

InitBedrooms ==
  /\ InitPipeline
  /\ priceInput = None
  /\ priceResult = None
  /\ bedroomsInput \in {Some(call) : call \in BedroomCalls}
  /\ bedroomsResult = None
  /\ ApiIdle

\* PropertyUtils.parseBedrooms(bedroomString) is called and returns
CallParseBedrooms ==
  /\ IsSome(bedroomsInput) /\ ~IsSome(bedroomsResult)
  /\ bedroomsResult' = Some(parseBedrooms(BedroomArgument(Val(bedroomsInput))))
  /\ UNCHANGED <<msgs, queue, handlers, pg, es, idSeq, now, synth, faults,
                 log, proc, priceInput, priceResult, reqs, cache, clock,
                 searches, keyInput, keyResult, limiter, bedroomsInput>>

SpecBedrooms == InitBedrooms /\ [][CallParseBedrooms]_vars

\* ============================================================ API service
\* (unnamed/part_006, the API service with response cache and rate
\* limiter; backend/api_service/src/index.ts is its predecessor with the
\* same query building)
\*
\* A request is a step of the middleware and then steps of its handler, one
\* per await.  Express runs the handlers of different requests interleaved.

\* --------------------------------------------------------- bounds (API)
\* number of HTTP requests in one behaviour
MaxRequests == 2
\* number of requests whose handlers may be suspended at the same time
MaxInFlight == 2
\* seconds the clock of the cache store advances in one behaviour
MaxClock == 2

\* configured lifetimes of cache entries, in seconds, for the checked
\* deployment (process.env.CACHE_TTL_PROPERTIES, CACHE_TTL_METADATA)
CACHE_TTL_PROPERTIES == 1
CACHE_TTL_METADATA == 2

\* configured budget of the rate limiter for the checked deployment: points
\* per client IP and length of the window in seconds
\* (process.env.RATE_LIMIT_POINTS, RATE_LIMIT_DURATION)
RATE_LIMIT_POINTS == 1
RATE_LIMIT_DURATION == 2

\* ---------------------------------------------------- query-string values
\* characters of the numeric parameter values of the requests
ParamChars ==
  [ p \in {"0", "-1", "-3", "2", "5", "47.6", "-122.3"} |->
    CASE p = "0" -> <<"0">>
      [] p = "-1" -> <<"-","1">>
      [] p = "-3" -> <<"-","3">>
      [] p = "2" -> <<"2">>
      [] p = "5" -> <<"5">>
      [] p = "47.6" -> <<"4","7",".","6">>
      [] p = "-122.3" -> <<"-","1","2","2",".","3">> ]

\* the sign and the unsigned rest of a numeric text
Negative(s) == TrimLeft(s) # <<>> /\ Head(TrimLeft(s)) = "-"
Unsigned(s) ==
  LET t == TrimLeft(s)
  IN  IF t # <<>> /\ (Head(t) = "-" \/ Head(t) = "+") THEN Tail(t) ELSE t

\* parseInt of the characters of a string: None stands for NaN
ParseInt(s) ==
  LET d == DigitPrefix(Unsigned(s))
  IN  IF d = <<>> THEN None
      ELSE Some(IF Negative(s) THEN 0 - DigitsVal(d) ELSE DigitsVal(d))

\* parseFloat of the characters of a string, scaled by AmountScale: None
\* stands for NaN
ParseNumber(s) ==
  LET v == ParseFloat(Unsigned(s))
  IN  IF v = NaN THEN None
      ELSE Some(IF Negative(s) THEN 0 - v ELSE v)

\* JavaScript truthiness of a query parameter (undefined and '' are falsy,
\* every other string is truthy, '0' included)
Supplied(param) == IsSome(param) /\ Val(param) # ""

\* JavaScript truthiness of a number | null: null, NaN and 0 are falsy
TruthyNumber(n) == IsSome(n) /\ Val(n) # 0

\* parseInt(param as string) || dflt
ParseIntOr(param, dflt) ==
  LET n == IF IsSome(param) THEN ParseInt(ParamChars[Val(param)]) ELSE None
  IN  IF TruthyNumber(n) THEN Val(n) ELSE dflt

\* req.query restricted to the parameters of the model: each is absent or a
\* string
Query(pageQuery, limitQuery, q, lat, lon, radius_km, sortByQuery, orderQuery) ==
  [page |-> pageQuery, limit |-> limitQuery, q |-> q, lat |-> lat,
   lon |-> lon, radius_km |-> radius_km, sort_by |-> sortByQuery,
   order |-> orderQuery, property_type |-> None, amenities |-> None]
\* a query string that also carries property_type and amenities
Filtered(query, property_type, amenities) ==
  [query EXCEPT !.property_type = property_type, !.amenities = amenities]

\* const page, const limit
PageOf(query) == ParseIntOr(query.page, 1)
LimitOf(query) == ParseIntOr(query.limit, 10)

\* the geo block: the three parameters parsed when all of them are
\* supplied, isGeoSearchActive, and whether the block answers 400
GeoSearch(query) ==
  IF Supplied(query.lat) /\ Supplied(query.lon) /\ Supplied(query.radius_km)
  THEN LET parsed(parsedLatitude, parsedLongitude, radius) ==
             LET valid == /\ IsSome(parsedLatitude) /\ IsSome(parsedLongitude)
                          /\ IsSome(radius) /\ Val(radius) > 0
             IN  [isGeoSearchActive |-> valid, rejected |-> ~valid,
                  parsedLatitude |-> parsedLatitude,
                  parsedLongitude |-> parsedLongitude, radius |-> radius]
       IN  parsed(ParseNumber(ParamChars[Val(query.lat)]),
                  ParseNumber(ParamChars[Val(query.lon)]),
                  ParseNumber(ParamChars[Val(query.radius_km)]))
  ELSE [isGeoSearchActive |-> FALSE, rejected |-> FALSE,
        parsedLatitude |-> None, parsedLongitude |-> None, radius |-> None]

\* clauses of the bool query
Clause(kind, field, value) == [kind |-> kind, field |-> field, value |-> value]
StatusActive == Clause("term", "status", "active")

\* the geo_distance clause, pushed when the geo search is active
GeoClauses(geo) ==
  IF geo.isGeoSearchActive
  THEN <<Clause("geo_distance", "location_coordinates",
                [lat |-> Val(geo.parsedLatitude),
                 lon |-> Val(geo.parsedLongitude),
                 distance |-> Val(geo.radius)])>>
  ELSE <<>>

\* (variant: the property type is matched against the name of the source)
TypeField_SourceName == "source_name"
\* the field of the property type filter
TypeField == "property_type.keyword"

\* the property type filter: one terms clause over the trimmed non-empty
\* items of the list, when there is one
TypeClauses(property_type) ==
  IF Supplied(property_type) /\ TrimmedItems(FilterChars[Val(property_type)]) # <<>>
  THEN <<Clause("terms", TypeField,
                TrimmedItems(FilterChars[Val(property_type)]))>>
  ELSE <<>>

\* (variant: one terms clause, any of the requested amenities is enough)
AmenityFilter_AnyOf(requestedAmenities) ==
  IF requestedAmenities = <<>> THEN <<>>
  ELSE <<Clause("terms", "amenities", requestedAmenities)>>
\* requestedAmenities.forEach: one term clause for each requested amenity
AmenityFilter(requestedAmenities) ==
  [i \in 1..Len(requestedAmenities) |->
     Clause("term", "amenities", requestedAmenities[i])]

\* const requestedAmenities: the pieces of the list trimmed and lower-cased,
\* the empty ones dropped
RequestedAmenities(amenities) ==
  Texts(SelectSeq([i \in 1..Len(SplitComma(FilterChars[amenities], <<>>)) |->
                     ToLowerCase(Trim(SplitComma(FilterChars[amenities], <<>>)[i]))],
                  LAMBDA a : a # <<>>))

\* the amenities filter
AmenityClauses(amenities) ==
  IF Supplied(amenities)
  THEN AmenityFilter(RequestedAmenities(Val(amenities)))
  ELSE <<>>

\* the clauses pushed before the status clause: geo distance, property
\* type, amenities
ParameterClauses(query) ==
  GeoClauses(GeoSearch(query)) \o TypeClauses(query.property_type)
    \o AmenityClauses(query.amenities)

\* (variant: the status clause is not pushed)
FilterClauses_AnyStatus(query) == ParameterClauses(query)

\* esQueryBody.query.bool.filter: the clauses of the parameters, and always
\* the status clause
FilterClauses(query) == ParameterClauses(query) \o <<StatusActive>>

\* const sortBy, const order
SortBy(query) ==
  IF Supplied(query.sort_by) THEN Val(query.sort_by)
  ELSE IF Supplied(query.q) THEN "relevance"
  ELSE IF GeoSearch(query).isGeoSearchActive THEN "distance"
  ELSE "date"
SortOrder(query) ==
  IF query.order = Some("asc") \/ query.order = Some("desc")
  THEN Val(query.order) ELSE "desc"

\* one entry of sortOptions
By(field, direction) == [field |-> field, order |-> direction]

\* sortOptions: the switch over sortBy, the tie-breaks, and the fallback for
\* an empty list
SortOptions(query) ==
  LET hasCenter(geo) == /\ geo.isGeoSearchActive
                        /\ TruthyNumber(geo.parsedLatitude)
                        /\ TruthyNumber(geo.parsedLongitude)
      switch(geo, sortBy, order) ==
        CASE sortBy = "price" -> <<By("normalized_price_usd", order)>>
          [] sortBy = "date" -> <<By("date_posted", order)>>
          [] sortBy = "area" -> <<By("normalized_area_sqft", order)>>
          [] sortBy = "relevance" ->
               IF Supplied(query.q) THEN <<By("_score", "desc")>>
               ELSE IF hasCenter(geo) THEN <<By("_geo_distance", "asc")>>
               ELSE <<>>
          [] sortBy = "distance" ->
               IF hasCenter(geo)
               THEN <<By("_geo_distance",
                         IF order = "asc" THEN "asc" ELSE "desc")>>
               ELSE <<By("date_posted", "desc")>>
          [] OTHER -> <<By("date_posted", "desc")>>
      ties(geo, sortBy) ==
        IF sortBy # "relevance" /\ sortBy # "distance"
        THEN <<By("date_posted", "desc"), By("_score", "desc")>>
        ELSE IF sortBy = "relevance" /\ ~Supplied(query.q)
                  /\ ~geo.isGeoSearchActive
             THEN <<By("_score", "desc")>>
             ELSE <<>>
      fallback(sortOptions) ==
        IF sortOptions = <<>>
        THEN <<By("date_posted", "desc"), By("scrape_timestamp", "desc"),
               By("_score", "desc")>>
        ELSE sortOptions
      options(geo, sortBy, order) ==
        fallback(switch(geo, sortBy, order) \o ties(geo, sortBy))
  IN  options(GeoSearch(query), SortBy(query), SortOrder(query))

\* esQueryBody of GET /properties
PropertiesQuery(query) ==
  [must |-> IF Supplied(query.q)
            THEN <<Clause("multi_match", "title", Val(query.q))>>
            ELSE <<Clause("match_all", "", "")>>,
   filter |-> FilterClauses(query),
   from |-> (PageOf(query) - 1) * LimitOf(query),
   size |-> LimitOf(query),
   sort |-> SortOptions(query)]

\* esQuery.body of GET /properties/filters/metadata (the aggregations are
\* those of MetadataOf)
MetadataQuery ==
  [must |-> <<>>, filter |-> <<StatusActive>>, from |-> 0, size |-> 0,
   sort |-> <<>>]

\* ------------------------------------------------------------ cacheUtils
\* a JavaScript value of a parsed query string: a string, or an object
\* whose members are kept in insertion order as <<name, value>> pairs
JString(s) == [kind |-> "string", str |-> s, members |-> <<>>]
JObject(members) == [kind |-> "object", str |-> "", members |-> members]

\* the parameter and member names of the model in the order of
\* Array.prototype.sort (UTF-16 code units)
KeyOrder ==
  <<"amenities", "city", "lat", "limit", "lon", "max", "min", "order",
    "page", "price", "property_type", "q", "radius_km", "sort_by">>

\* Object.keys(queryParams).sort().reduce(...): the members of the object
\* itself in the order of their names; the values are copied as they are
SortedQuery(members) ==
  LET rank(name) == CHOOSE i \in 1..Len(KeyOrder) : KeyOrder[i] = name
  IN  [i \in 1..Len(members) |->
         members[CHOOSE k \in 1..Len(members) :
                   Cardinality({j \in 1..Len(members) :
                      rank(members[j][1]) < rank(members[k][1])}) = i - 1]]

Quoted(s) == "\"" \o s \o "\""

\* JSON.stringify, as the sequence of the tokens of the text: an object
\* lists its members in insertion order
RECURSIVE Stringify(_)
RECURSIVE StringifyMembers(_, _)
StringifyMembers(members, i) ==
  IF i > Len(members) THEN <<>>
  ELSE (IF i > 1 THEN <<",">> ELSE <<>>)
         \o <<Quoted(members[i][1]), ":">> \o Stringify(members[i][2])
         \o StringifyMembers(members, i + 1)
Stringify(value) ==
  IF value.kind = "string" THEN <<Quoted(value.str)>>
  ELSE <<"{">> \o StringifyMembers(value.members, 1) \o <<"}">>

\* crypto.createHash('md5').update(text).digest('hex'): the digest is taken
\* to be collision-free on the texts of the model, so it is the text under
\* the tag md5
Md5(text) == <<"md5">> \o text

\* generateCacheKey: `${prefix}:${hash}`
generateCacheKey(prefix, queryParams) ==
  <<prefix, ":", Md5(Stringify(JObject(SortedQuery(queryParams))))>>

\* req.query as the object the query parser builds, the parameters in the
\* order the requests of the model list them
QueryObject(query) ==
  LET names == <<"q", "lat", "lon", "radius_km", "sort_by", "order", "page",
                 "limit", "property_type", "amenities">>
      present == SelectSeq(names, LAMBDA n : IsSome(query[n]))
  IN  [i \in 1..Len(present) |->
         <<present[i], JString(Val(query[present[i]]))>>]

\* const cacheKey of the two handlers
CacheKeyOf(endpoint, query) ==
  IF endpoint = "metadata" THEN <<"filters_metadata", ":", <<"all_v2">>>>
  ELSE generateCacheKey("properties_v2", QueryObject(query))

\* JSON.stringify and JSON.parse of a response body (objects, arrays,
\* strings, finite numbers and null, which the text preserves)
Serialized(body) == <<"json", body>>
Deserialized(text) == text[2]

\* -------------------------------------------- the search store's answers
\* the listings the pipeline has stored before the requests arrive
Listed(rawData, id, coordinates, status) ==
  InsertedRow([Normalized(rawData, 0, Val(rawData.source_url)) EXCEPT
                 !.latitude = IF IsSome(coordinates)
                              THEN Some(Val(coordinates).latitude) ELSE None,
                 !.longitude = IF IsSome(coordinates)
                               THEN Some(Val(coordinates).longitude) ELSE None,
                 !.status = status],
              id, 0)
SeattleAt == Some(GeoResult("found", 476062, 0 - 1223321))
\* the listing of scenario 1 with its type and its amenities as an array
Typed1 == Typed(Scenario1, Some("Apartment"), AmenityArray(<<"Pool", " Gym ">>))
ServedRows ==
  {Listed(l[1], l[2], l[3], l[4]) :
     l \in {<<Typed1, 1, SeattleAt, "active">>,
            <<Typed(Scenario2, Some("Apartment"), AmenityString("pool, gym")),
              2, SeattleAt, "potential_duplicate">>,
            <<Typed(Payload("object", Some("u3"), Some("S1"), Some("Loft"),
                            Some("Contact for price"), None),
                    Some(" House "), AmenityString("pool, gym")),
              3, None, "active">>,
            <<Typed(Payload("object", Some("u4"), Some("S2"),
                            Some("Sunny 2BR Apt"), Some("€1850/month"),
                            Some("Seattle, Washington")),
                    None, AmenityArray(<<"pool", "">>)),
              4, SeattleAt, "active">>}}
DocumentOf(row) == [id |-> row.source_url, body |-> EsDocument(row)]
\* documents the worker writes while the API serves requests: the listing
\* of scenario 1 is marked a potential duplicate, or is active again
ReindexPool ==
  {DocumentOf(Listed(Typed1, 1, SeattleAt, status)) :
     status \in {"potential_duplicate", "active"}}

\* a geo_distance clause, approximated on the grid of 0.0001 degree: both
\* coordinates within the distance, one km being 0.009 degree
WithinDistance(point, center) ==
  LET r == (center.distance * 90) \div AmountScale
  IN  /\ point.lat - center.lat <= r /\ center.lat - point.lat <= r
      /\ point.lon - center.lon <= r /\ center.lon - point.lon <= r

\* the fields of type keyword in the mapping the worker creates the index
\* with, among those of the model; only title has a keyword sub-field
KeywordFields ==
  {"price_original_textual_display", "currency_original", "property_type",
   "amenities", "source_url", "source_name", "status", "title.keyword"}

\* the values a document holds in a keyword field: those of an array, none
\* for null
KeywordValues(body, field) ==
  CASE field = "amenities" -> {body.amenities[i] : i \in 1..Len(body.amenities)}
    [] field = "property_type" ->
         IF IsSome(body.property_type) THEN {Val(body.property_type)} ELSE {}
    [] field = "title.keyword" -> {body.title}
    [] OTHER -> {body[field]}

\* does a document satisfy a clause; a term or terms clause on a field the
\* mapping does not define matches no document
Satisfies(body, clause) ==
  CASE clause.kind = "term" ->
         /\ clause.field \in KeywordFields
         /\ clause.value \in KeywordValues(body, clause.field)
    [] clause.kind = "terms" ->
         /\ clause.field \in KeywordFields
         /\ \E i \in 1..Len(clause.value) :
              clause.value[i] \in KeywordValues(body, clause.field)
    [] clause.kind = "geo_distance" ->
         /\ IsSome(body.location_coordinates)
         /\ WithinDistance(Val(body.location_coordinates), clause.value)
    [] clause.kind = "multi_match" ->
         Includes(ToLowerCase(Chars[body.title]),
                  ToLowerCase(Chars[clause.value]))
    [] OTHER -> TRUE

\* the documents a bool query selects
Selected(docs, sent) ==
  {doc \in docs :
     /\ \A i \in 1..Len(sent.must) : Satisfies(doc.body, sent.must[i])
     /\ \A i \in 1..Len(sent.filter) : Satisfies(doc.body, sent.filter[i])}

\* body.hits.hits: `size` of the selected documents after the first `from`
\* ones in the order of the sort; the model admits every selection of that
\* many documents
PossibleHits(docs, sent) ==
  LET rest == Cardinality(Selected(docs, sent)) - sent.from
  IN  {hits \in SUBSET Selected(docs, sent) :
         Cardinality(hits) = IF rest <= 0 THEN 0
                             ELSE IF rest < sent.size THEN rest
                             ELSE sent.size}

\* the pagination member of responseData; totalPages is
\* Math.ceil(totalItems / limit), with totalItems >= 0 and limit >= 1
Pagination(page, limit, totalItems) ==
  LET totalPages == (totalItems + limit - 1) \div limit
  IN  [currentPage |-> page, totalPages |-> totalPages,
       totalItems |-> totalItems, limit |-> limit,
       nextPage |-> IF page < totalPages THEN Some(page + 1) ELSE None,
       prevPage |-> IF page > 1 THEN Some(page - 1) ELSE None]

\* responseData of GET /properties
PropertiesResponse(query, hits, totalItems) ==
  [data |-> {hit.body : hit \in hits},
   pagination |-> Pagination(PageOf(query), LimitOf(query), totalItems)]

\* metadata of GET /properties/filters/metadata, from the aggregations over
\* the selected documents (price range and locations); the minimum and the
\* maximum of no value are null
MetadataOf(selected) ==
  LET prices == {Val(doc.body.normalized_price_usd) :
                   doc \in {d \in selected : IsSome(d.body.normalized_price_usd)}}
      least == IF prices = {} THEN None
               ELSE Some(CHOOSE v \in prices : \A w \in prices : v <= w)
      greatest == IF prices = {} THEN None
                  ELSE Some(CHOOSE v \in prices : \A w \in prices : v >= w)
  IN  [price_range |-> [min |-> least, max |-> greatest],
       locations |-> {Val(doc.body.address_raw) :
                        doc \in {d \in selected : IsSome(d.body.address_raw)}}]

\* ------------------------------------------------------ API: the handlers
\* the variables of the worker that no step of the API service changes
workerVars ==
  <<msgs, queue, handlers, pg, idSeq, now, synth, log, proc, priceInput,
    priceResult>>

Reqs == 1..Len(reqs)
Done(i) == reqs[i].pc = "done"

\* a request arrives and the middleware calls rateLimiter.consume
Received(ip, endpoint, query, after) ==
  [ip |-> ip,         \* req.ip
   endpoint |-> endpoint, query |-> query, pc |-> "limiter",
   after |-> after,   \* the requests answered before this one arrived
   consumedAt |-> None, \* when the limiter counted the request
   key |-> <<>>,      \* const cacheKey
   sent |-> None,     \* the query sent to the search store
   index |-> None,    \* the index when the search store answered
   found |-> None,    \* responseData / metadata
   hit |-> None,      \* the cache entry the handler was served
   wrote |-> None,    \* the cache entry the handler wrote
   res |-> None]      \* the response: status, body and what produced it

Arrive(ip, endpoint, query) ==
  /\ Len(reqs) < MaxRequests
  /\ Cardinality({i \in Reqs : ~Done(i)}) < MaxInFlight
  /\ reqs' = Append(reqs, Received(ip, endpoint, query,
                                   {i \in Reqs : Done(i)}))
  /\ UNCHANGED <<es, faults, cache, clock, searches, keyInput, keyResult, limiter,
                 bedroomsInput, bedroomsResult>>
  /\ UNCHANGED workerVars

\* res.status(status).json(body) or .send(body): a body sent with .json is
\* the object, a body sent with .send is [text |-> the string]; retryAfter
\* is the Retry-After header
Responded(i, status, body, via) ==
  [reqs EXCEPT ![i].pc = "done",
               ![i].res = Some([status |-> status, body |-> body, via |-> via,
                                retryAfter |-> None])]

\* the body of the catch block of a handler
FailureBody(endpoint) ==
  IF endpoint = "metadata"
  THEN [error |-> "Failed to fetch filter metadata."]
  ELSE [error |-> "Failed to fetch properties."]

\* a key of the store is written: the value replaces an older one
Put(entries, key, entry) ==
  [k \in DOMAIN entries \cup {key} |-> IF k = key THEN entry ELSE entries[k]]

\* (variant: the request that uses the last point is rejected)
OverBudget_AtBudget(consumedPoints) == consumedPoints >= RATE_LIMIT_POINTS

\* RateLimiterRedis rejects a consume once the points consumed in the window
\* exceed `points`
OverBudget(consumedPoints) == consumedPoints > RATE_LIMIT_POINTS

\* rateLimiterMiddleware up to its answer.  Without a limiter, and with the
\* store client not ready to create one, the request is passed on.
\* Otherwise rateLimiter.consume(req.ip) counts a point for the IP in the
\* store, in a key that expires `duration` seconds after its first point:
\* next() starts the handler, which computes its cache key and calls
\* redisClient.get; a rejection is answered 429 with msBeforeNext rounded
\* up to seconds; an error of the store is answered 500
RateLimiter(i, ready, ok, msBeforeNext) ==
  /\ i \in Reqs /\ reqs[i].pc = "limiter"
  /\ LET r == reqs[i]
         next == [reqs EXCEPT ![i].pc = "get",
                              ![i].key = CacheKeyOf(r.endpoint, r.query)]
         keys == IF IsSome(limiter) THEN Val(limiter) ELSE <<>>
         counting == r.ip \in DOMAIN keys /\ clock < keys[r.ip].expires
         consumedPoints == IF counting THEN keys[r.ip].consumed + 1 ELSE 1
         expires == IF counting THEN keys[r.ip].expires
                    ELSE clock + RATE_LIMIT_DURATION
         secs == (msBeforeNext + 999) \div 1000
     IN  IF ~IsSome(limiter) /\ ~ready
         THEN /\ ok /\ msBeforeNext = 0
              /\ reqs' = next
              /\ UNCHANGED <<limiter, faults>>
         ELSE /\ IsSome(limiter) => ready
              /\ Failing(ok)
              /\ IF ~ok
                 THEN /\ msBeforeNext = 0
                      /\ limiter' = Some(keys)
                      /\ reqs' = Responded(i, 500,
                           [text |-> "Internal server error (rate limiting)."],
                           "limiter")
                 ELSE /\ limiter' = Some(Put(keys, r.ip,
                                              [consumed |-> consumedPoints,
                                               expires |-> expires]))
                      /\ IF OverBudget(consumedPoints)
                         THEN /\ (expires - clock - 1) * 1000 < msBeforeNext
                              /\ msBeforeNext <= (expires - clock) * 1000
                              /\ reqs' =
                                   [Responded(i, 429,
                                      [text |-> "Too Many Requests. Try again in ${secs} seconds.",
                                       secs |-> secs], "limiter")
                                    EXCEPT ![i].res[1].retryAfter = Some(secs),
                                           ![i].consumedAt = Some(clock)]
                         ELSE /\ msBeforeNext = 0
                              /\ reqs' = [next EXCEPT
                                            ![i].consumedAt = Some(clock)]
  /\ UNCHANGED <<es, cache, clock, searches, keyInput, keyResult,
                 bedroomsInput, bedroomsResult>>
  /\ UNCHANGED workerVars

\* (variant: an entry is served whatever its age)
Live_Forever(entries, key, t) == key \in DOMAIN entries

\* redisClient.get finds the entries that have not expired
Live(entries, key, t) == key \in DOMAIN entries /\ t < entries[key].expires

\* the synchronous part of GET /properties after a cache miss, up to the
\* search request: "paging" and "geo" are the two 400 answers
Validation(query) ==
  IF PageOf(query) < 1 \/ LimitOf(query) < 1 THEN "paging"
  ELSE IF GeoSearch(query).rejected THEN "geo"
  ELSE "search"

\* redisClient.get has settled: a hit is answered from the cache; after a
\* miss GET /properties validates the parameters and sends its query, the
\* metadata handler sends its aggregation; a failure is answered 500
CacheGet(i, ok) ==
  /\ i \in Reqs /\ reqs[i].pc = "get"
  /\ Failing(ok)
  /\ LET r == reqs[i]
     IN  IF ~ok
         THEN /\ reqs' = Responded(i, 500, FailureBody(r.endpoint), "error")
              /\ UNCHANGED searches
         ELSE IF Live(cache, r.key, clock)
         THEN /\ reqs' = [Responded(i, 200, Deserialized(cache[r.key].value),
                                    "cache")
                            EXCEPT ![i].hit = Some(cache[r.key])]
              /\ UNCHANGED searches
         ELSE IF r.endpoint = "properties" /\ Validation(r.query) = "paging"
         THEN /\ reqs' = Responded(i, 400,
                    [error |-> "Page and limit must be positive integers."],
                    "validation")
              /\ UNCHANGED searches
         ELSE IF r.endpoint = "properties" /\ Validation(r.query) = "geo"
         THEN /\ reqs' = Responded(i, 400,
                    [error |-> "Invalid geo parameters."], "validation")
              /\ UNCHANGED searches
         ELSE \E sending \in {IF r.endpoint = "metadata" THEN MetadataQuery
                               ELSE PropertiesQuery(r.query)} :
                /\ reqs' = [reqs EXCEPT ![i].pc = "search",
                                        ![i].sent = Some(sending)]
                /\ searches' = Append(searches, [req |-> i, body |-> sending])
  /\ UNCHANGED <<es, cache, clock, keyInput, keyResult, limiter,
                 bedroomsInput, bedroomsResult>>
  /\ UNCHANGED workerVars

\* lifetime of the entries of an endpoint
TtlOf(endpoint) ==
  IF endpoint = "metadata" THEN CACHE_TTL_METADATA ELSE CACHE_TTL_PROPERTIES

\* the entry SET key value EX ttl writes: it records when and by which
\* request it was written
Entry(i, body, t) ==
  [value |-> Serialized(body), expires |-> t + TtlOf(reqs[i].endpoint),
   at |-> t, by |-> i]

\* (variant: the catch block caches its answer)
CacheAfterCatch_Written(entries, key, entry) == Put(entries, key, entry)

\* the catch block does not touch the cache
CacheAfterCatch(entries, key, entry) == entries

\* esClient.search has settled: after a failure the catch block answers
\* 500; otherwise the handler builds its response and calls redisClient.set
SearchReturns(i, ok, hits) ==
  /\ i \in Reqs /\ reqs[i].pc = "search"
  /\ Failing(ok)
  /\ LET r == reqs[i]
         selected == Selected(es, Val(r.sent))
     IN  IF ok
         THEN /\ hits \in PossibleHits(es, Val(r.sent))
              /\ reqs' =
                   [reqs EXCEPT
                      ![i].pc = "set",
                      ![i].index = Some(es),
                      ![i].found =
                        Some(IF r.endpoint = "metadata"
                             THEN MetadataOf(selected)
                             ELSE PropertiesResponse(r.query, hits,
                                                     Cardinality(selected)))]
              /\ UNCHANGED cache
         ELSE /\ hits = {}
              /\ reqs' = Responded(i, 500, FailureBody(r.endpoint), "error")
              /\ cache' = CacheAfterCatch(cache, r.key,
                                          Entry(i, FailureBody(r.endpoint), clock))
  /\ UNCHANGED <<es, clock, searches, keyInput, keyResult, limiter,
                 bedroomsInput, bedroomsResult>>
  /\ UNCHANGED workerVars

\* redisClient.set has settled: the response is sent after the entry is
\* written; a failure is answered 500
CacheSet(i, ok) ==
  /\ i \in Reqs /\ reqs[i].pc = "set"
  /\ Failing(ok)
  /\ LET r == reqs[i]
         entry == Entry(i, Val(r.found), clock)
     IN  IF ok
         THEN /\ cache' = Put(cache, r.key, entry)
              /\ reqs' = [Responded(i, 200, Val(r.found), "search")
                            EXCEPT ![i].wrote = Some(entry)]
         ELSE /\ reqs' = Responded(i, 500, FailureBody(r.endpoint), "error")
              /\ UNCHANGED cache
  /\ UNCHANGED <<es, clock, searches, keyInput, keyResult, limiter,
                 bedroomsInput, bedroomsResult>>
  /\ UNCHANGED workerVars

\* a second passes; the store deletes the cache entries and the limiter
\* keys whose lifetime has elapsed
Tick ==
  /\ clock < MaxClock
  /\ clock' = clock + 1
  /\ cache' = LET keep == {k \in DOMAIN cache : Live(cache, k, clock + 1)}
              IN  IF keep = {} THEN <<>> ELSE [k \in keep |-> cache[k]]
  /\ limiter' =
       IF IsSome(limiter)
       THEN LET keep == {k \in DOMAIN Val(limiter) :
                           clock + 1 < Val(limiter)[k].expires}
            IN  Some(IF keep = {} THEN <<>> ELSE [k \in keep |-> Val(limiter)[k]])
       ELSE None
  /\ UNCHANGED <<es, faults, reqs, searches, keyInput, keyResult,
                 bedroomsInput, bedroomsResult>>
  /\ UNCHANGED workerVars

\* the worker indexes a listing while the API serves requests
Reindex(doc) ==
  /\ doc \notin es
  /\ es' = IndexDocs(es, doc.id, doc.body)
  /\ UNCHANGED <<faults, reqs, cache, clock, searches, keyInput, keyResult, limiter,
                 bedroomsInput, bedroomsResult>>
  /\ UNCHANGED workerVars

\* ------------------------------------------------- API: specifications
\* the API service in front of the index of ServedRows, with an empty cache
InitService ==
  /\ msgs = <<>> /\ queue = <<>> /\ handlers = <<>> /\ log = <<>>
  /\ pg = ServedRows
  /\ es = {DocumentOf(row) : row \in pg}
  /\ idSeq = Cardinality(pg)
  /\ now = 0 /\ synth = 0 /\ faults = 0
  /\ proc = "running"
  /\ priceInput = None /\ priceResult = None
  /\ cache = <<>> /\ clock = 0 /\ searches = <<>>
  /\ keyResult = None
  /\ bedroomsInput = None /\ bedroomsResult = None

NoParams == Query(None, None, None, None, None, None, None, None)

\* requests of the clients: the first page with the defaults, a second page
\* of two, a negative page, and the filter metadata
RequestPool ==
  {[endpoint |-> "properties", query |-> NoParams],
   [endpoint |-> "properties",
    query |-> Query(Some("2"), Some("2"), None, None, None, None, None, None)],
   [endpoint |-> "properties",
    query |-> Query(Some("-1"), None, None, None, None, None, None, None)],
   [endpoint |-> "metadata", query |-> NoParams]}

\* the service after the store client has connected and created the
\* limiter
InitApi ==
  /\ InitService
  /\ reqs = <<>>
  /\ keyInput = None
  /\ limiter = Some(<<>>)

\* the steps of the middleware and of the handlers
NextHandlers ==
  \/ \E i \in Reqs, ready \in BOOLEAN, ok \in BOOLEAN,
        msBeforeNext \in {0} \cup {(k - 1) * 1000 + ms :
                                     k \in 1..RATE_LIMIT_DURATION,
                                     ms \in {1, 500, 1000}} :
       RateLimiter(i, ready, ok, msBeforeNext)
  \/ \E i \in Reqs, ok \in BOOLEAN : CacheGet(i, ok)
  \/ \E i \in Reqs, ok \in BOOLEAN, hits \in SUBSET es : SearchReturns(i, ok, hits)
  \/ \E i \in Reqs, ok \in BOOLEAN : CacheSet(i, ok)

NextApi ==
  \/ \E r \in RequestPool, ip \in {"10.0.0.1", "10.0.0.2"} :
       Arrive(ip, r.endpoint, r.query)
  \/ NextHandlers
  \/ Tick
  \/ \E doc \in ReindexPool : Reindex(doc)

SpecApi == InitApi /\ [][NextApi]_vars

\* the service from its start, before the store client has connected:
\* two clients request the filter metadata
InitLimiter ==
  /\ InitService
  /\ reqs = <<>>
  /\ keyInput = None
  /\ limiter = None

SpecLimiter ==
  InitLimiter
    /\ [][\/ \E ip \in {"10.0.0.1", "10.0.0.2"} :
               Arrive(ip, "metadata", NoParams)
           \/ NextHandlers
           \/ Tick]_vars

\* one request: the filter metadata, or GET /properties with any
\* combination of parameter values
InitQuery ==
  /\ InitService
  /\ keyInput = None
  /\ limiter = Some(<<>>)
  /\ \/ reqs = <<Received("10.0.0.1", "metadata", NoParams, {})>>
     \/ \E pageQuery \in {None, Some("0"), Some("-1"), Some("2"), Some("5")},
           limitQuery \in {None, Some("0"), Some("-3"), Some("2")},
           q \in {None, Some("Loft")},
           lat \in {None, Some("0"), Some("47.6")},
           lon \in {None, Some("0"), Some("-122.3")},
           radius_km \in {None, Some("0"), Some("5")},
           sortByQuery \in {None, Some("price"), Some("date"), Some("area"),
                            Some("relevance"), Some("distance"), Some("newest")},
           orderQuery \in {None, Some("asc"), Some("desc"), Some("up")} :
          reqs = <<Received("10.0.0.1", "properties",
                            Query(pageQuery, limitQuery, q, lat, lon, radius_km,
                                  sortByQuery, orderQuery), {})>>

SpecQuery == InitQuery /\ [][NextHandlers]_vars

\* one request of GET /properties with a property type, with amenities, or
\* with both, while the worker reindexes
InitFilter ==
  /\ InitService
  /\ keyInput = None
  /\ limiter = Some(<<>>)
  /\ \E property_type \in {None, Some(""), Some("Apartment"), Some("S1"),
                           Some("Apartment,House"), Some(" , ")},
        amenities \in {None, Some(""), Some("Pool"), Some("pool"),
                       Some("Pool,GYM"), Some(" , ")} :
       reqs = <<Received("10.0.0.1", "properties",
                         Filtered(NoParams, property_type, amenities), {})>>

SpecFilter ==
  InitFilter /\ [][NextHandlers \/ \E doc \in ReindexPool : Reindex(doc)]_vars

\* direct calls of generateCacheKey with two parameter objects: those of
\* the unit tests (members in different orders, different values, the empty
\* object) and objects with a nested object, as the query parser builds
\* for price[min]=1&price[max]=2
KeyObjects ==
  {<<>>,
   <<<<"limit", JString("10")>>, <<"page", JString("1")>>,
     <<"city", JString("New York")>>>>,
   <<<<"city", JString("New York")>>, <<"page", JString("1")>>,
     <<"limit", JString("10")>>>>,
   <<<<"limit", JString("10")>>, <<"page", JString("1")>>>>,
   <<<<"page", JString("1")>>, <<"limit", JString("10")>>>>,
   <<<<"limit", JString("20")>>, <<"page", JString("1")>>>>,
   <<<<"limit", JString("1")>>, <<"page", JString("10")>>>>,
   <<<<"price", JObject(<<<<"min", JString("1")>>, <<"max", JString("2")>>>>)>>>>,
   <<<<"price", JObject(<<<<"max", JString("2")>>, <<"min", JString("1")>>>>)>>>>,
   <<<<"price", JObject(<<<<"min", JString("1")>>>>)>>,
     <<"page", JString("1")>>>>}

InitKey ==
  /\ InitService
  /\ reqs = <<>>
  /\ limiter = None
  /\ \E prefix \in {"properties", "properties_v2"},
        first \in KeyObjects, second \in KeyObjects :
       keyInput = Some([prefix |-> prefix, first |-> first, second |-> second])

\* the two calls return
CallGenerateCacheKey ==
  /\ IsSome(keyInput) /\ ~IsSome(keyResult)
  /\ keyResult' =
       Some(<<generateCacheKey(Val(keyInput).prefix, Val(keyInput).first),
              generateCacheKey(Val(keyInput).prefix, Val(keyInput).second)>>)
  /\ UNCHANGED <<es, faults, reqs, cache, clock, searches, keyInput, limiter,
                 bedroomsInput, bedroomsResult>>
  /\ UNCHANGED workerVars

SpecCacheKey == InitKey /\ [][CallGenerateCacheKey]_vars

\* ================================================================ properties
Has(tag, e) == \E i \in 1..Len(log[tag].events) : log[tag].events[i] = e
IsSettled(tag) == handlers[tag].pc = "settled"
Acked(tag) == log[tag].decisions = <<[kind |-> "ack", requeue |-> FALSE]>>
NackedNoRequeue(tag) ==
  log[tag].decisions = <<[kind |-> "nack", requeue |-> FALSE]>>
\* the callback of the message got through all four stages
AllStagesSucceeded(tag) ==
  Has(tag, "parsed") /\ Has(tag, "normalized") /\ Has(tag, "pg_ok")
    /\ Has(tag, "es_ok")
\* the index write of the message failed after its upsert succeeded
IndexFailedAfterUpsert(tag) ==
  IsSettled(tag) /\ Has(tag, "pg_ok") /\ Has(tag, "es_fail")

RowsOf(url) == {row \in pg : row.source_url = url}
DocsOf(url) == {doc \in es : doc.id = url}
\* one master row and one index document for url, with the same values
Converged(url) ==
  /\ Cardinality(RowsOf(url)) = 1
  /\ Cardinality(DocsOf(url)) = 1
  /\ \A row \in RowsOf(url), doc \in DocsOf(url) : doc.body = EsDocument(row)

\* C1: every delivered message gets exactly one ack/nack call, made when its
\* callback finishes: an ack if and only if parsing, normalization, the
\* relational upsert and the index write all succeeded, otherwise a nack
\* with requeue = false; no delivered message is back in the queue.
C1_OneDecisionAckIffAllSucceeded ==
  /\ \A tag \in Tags :
       /\ Len(log[tag].decisions) = (IF IsSettled(tag) THEN 1 ELSE 0)
       /\ IsSettled(tag) =>
            /\ Acked(tag) <=> AllStagesSucceeded(tag)
            /\ ~Acked(tag) => NackedNoRequeue(tag)
  /\ \A i \in 1..Len(queue) : ~Has(queue[i], "delivered")

\* C1 witness: one message was acked and another one nacked after a failed
\* index write.
C1_Witness ==
  \E a, b \in Tags :
    /\ IsSettled(a) /\ Acked(a)
    /\ IndexFailedAfterUpsert(b) /\ NackedNoRequeue(b)

\* C2: the index write of a message is issued only after the relational
\* upsert of that message succeeded; after a failed upsert no index write is
\* issued for the message.
C2_UpsertBeforeIndex ==
  \A tag \in Tags :
    LET ev == log[tag].events
    IN  /\ \A i \in 1..Len(ev) :
             ev[i] = "es_issued" => \E j \in 1..(i - 1) : ev[j] = "pg_ok"
        /\ Has(tag, "pg_fail") => ~Has(tag, "es_issued")

\* C2 witness: the upsert of one message failed and the index write of
\* another message was issued.
C2_Witness ==
  \E a, b \in Tags :
    /\ IsSettled(a) /\ Has(a, "pg_fail")
    /\ Has(b, "es_issued")

\* C3: when the index write fails after the upsert of the same message
\* succeeded, the message is nacked without requeue and the master row the
\* upsert wrote is still there, under the id the upsert returned.
C3_IndexFailureKeepsRow ==
  \A tag \in Tags :
    IndexFailedAfterUpsert(tag) =>
      /\ NackedNoRequeue(tag)
      /\ \E row \in pg :
           /\ row.source_url = Val(log[tag].url)
           /\ row.id = Val(log[tag].propertyId)

\* C3 witness: an index write failed after the upsert succeeded, and the
\* row has no document in the index.
C3_Witness ==
  \E tag \in Tags :
    /\ IndexFailedAfterUpsert(tag)
    /\ DocsOf(Val(log[tag].url)) = {}

\* C4 (as claimed): a message whose payload is not a structured object is
\* nacked without requeue and its processing writes to neither store.
C4_NonObjectNackedNoWrite ==
  \A tag \in Tags :
    msgs[tag].kind # "object" =>
      /\ ~Has(tag, "pg_ok") /\ ~Has(tag, "pg_fail") /\ ~Has(tag, "es_issued")
      /\ IsSettled(tag) => NackedNoRequeue(tag)

\* C5: there is at most one master row per source_url; an upsert for a
\* source_url that is already stored leaves the number of rows unchanged;
\* every row stays in the table with the id of its first insert.
C5_OneRowPerUrlStableId ==
  /\ [](\A r1, r2 \in pg : r1.source_url = r2.source_url => r1 = r2)
  /\ [][ /\ \A row \in pg :
              \E new \in pg' :
                new.source_url = row.source_url /\ new.id = row.id
         /\ \A tag \in Tags :
              (/\ handlers[tag].pc = "upsert" /\ handlers'[tag].pc # "upsert"
               /\ RowsOf(Val(handlers[tag].data).source_url) # {})
                => Cardinality(pg') = Cardinality(pg) ]_vars

\* C5 witness: a master row was written by two ingests (its updated_at is
\* later than its created_at) while the sequence has moved on.
C5_Witness ==
  \E row \in pg : row.updated_at > row.created_at /\ idSeq > row.id

\* C6 (as claimed): with no message in flight and every processed message
\* acked, each master row has an index document equal to its projection, and
\* each index document has a master row.
C6_SteadyStateProjection ==
  (/\ InFlight = {}
   /\ \A tag \in Tags : IsSettled(tag) => Acked(tag))
    => /\ \A row \in pg : Converged(row.source_url)
       /\ \A doc \in es : RowsOf(doc.id) # {}

\* C7: a message that carries a source_url was nacked because its index
\* write failed after its upsert succeeded; when a later delivery of the
\* same message is acked, and no other callback for that source_url was in
\* flight meanwhile, the stores hold exactly one master row and one index
\* document for the source_url, with the same values.
RedeliveryAckedNow(tag) ==
  /\ handlers[tag].pc = "index" /\ handlers'[tag].pc = "settled"
  /\ Has(tag, "es_ok")' /\ ~log'[tag].overlapped
  /\ IsSome(msgs[tag].source_url)
  /\ \E first \in 1..(tag - 1) :
       msgs[first] = msgs[tag] /\ IndexFailedAfterUpsert(first)
C7_RedeliveryConverges ==
  [][\A tag \in Tags :
       RedeliveryAckedNow(tag) => Converged(Val(msgs[tag].source_url))']_vars

\* C7 witness: the second delivery of a message was acked after the index
\* write of its first delivery had failed.
C7_Witness ==
  \E first, tag \in Tags :
    /\ first < tag /\ msgs[first] = msgs[tag]
    /\ IsSome(msgs[tag].source_url)
    /\ IndexFailedAfterUpsert(first)
    /\ IsSettled(tag) /\ Acked(tag) /\ ~log[tag].overlapped
    /\ Converged(Val(msgs[tag].source_url))

\* C8: updated_at >= created_at holds for every master row; when a message
\* with a source_url is processed again after an earlier delivery of the same
\* message was acked, the upsert keeps the single row and its created_at and
\* moves updated_at strictly forward, and after the ack there is one row and
\* one document for the source_url.
SecondIngest(tag) ==
  /\ IsSome(msgs[tag].source_url)
  /\ ~log[tag].overlapped
  /\ \E first \in 1..(tag - 1) :
       msgs[first] = msgs[tag] /\ IsSettled(first) /\ Acked(first)
C8_ReingestTimestamps ==
  /\ [](\A row \in pg : row.updated_at >= row.created_at)
  /\ [][\A tag \in Tags :
          LET url == Val(msgs[tag].source_url)
          IN  /\ (SecondIngest(tag) /\ handlers[tag].pc = "upsert"
                    /\ handlers'[tag].pc = "index")
                 => /\ Cardinality(RowsOf(url)') = 1
                    /\ \A old \in RowsOf(url), new \in RowsOf(url)' :
                         /\ new.created_at = old.created_at
                         /\ new.updated_at > old.updated_at
              /\ (SecondIngest(tag) /\ handlers[tag].pc = "index"
                    /\ handlers'[tag].pc = "settled" /\ Has(tag, "es_ok")')
                 => /\ Cardinality(RowsOf(url)') = 1
                    /\ Cardinality(DocsOf(url)') = 1 ]_vars

\* C8 witness: a message was acked twice, one delivery after the other, and
\* its row's updated_at is later than its created_at.
C8_Witness ==
  \E first, tag \in Tags :
    /\ first < tag /\ msgs[first] = msgs[tag]
    /\ IsSome(msgs[tag].source_url)
    /\ Acked(first) /\ Acked(tag) /\ ~log[tag].overlapped
    /\ \E row \in RowsOf(Val(msgs[tag].source_url)) :
         row.updated_at > row.created_at

\* C9 (as claimed): duplicate_of_property_id is null unless the status is
\* potential_duplicate or merged, and a non-null duplicate_of_property_id
\* names a master row whose status is active.
C9_DuplicateOfActive ==
  \A row \in pg :
    IsSome(row.duplicate_of_property_id) =>
      /\ row.status \in {"potential_duplicate", "merged"}
      /\ \E peer \in pg :
           /\ peer.id = Val(row.duplicate_of_property_id)
           /\ peer.status = "active"

\* C10 (as claimed): right after the upsert of a record with status
\* potential_duplicate, its duplicate_of_property_id names a master row that
\* is active and has another source_name.
C10_DuplicateResolvesAfterUpsert ==
  [][\A tag \in Tags :
       (/\ handlers[tag].pc = "upsert" /\ handlers'[tag].pc = "index"
        /\ Val(handlers[tag].data).status = "potential_duplicate")
         => LET d == Val(handlers[tag].data)
            IN  /\ IsSome(d.duplicate_of_property_id)
                /\ \E peer \in pg' :
                     /\ peer.id = Val(d.duplicate_of_property_id)
                     /\ peer.status = "active"
                     /\ peer.source_name # d.source_name ]_vars

\* C11 (as claimed): following duplicate_of_property_id from a master row
\* never leads back to that row; in particular no row is a duplicate of
\* itself.
RECURSIVE LeadsTo(_, _, _)
LeadsTo(from, to, n) ==
  /\ n > 0
  /\ \E row \in pg :
       /\ row.id = from /\ IsSome(row.duplicate_of_property_id)
       /\ \/ Val(row.duplicate_of_property_id) = to
          \/ LeadsTo(Val(row.duplicate_of_property_id), to, n - 1)
C11_NoDuplicateCycle ==
  \A row \in pg : ~LeadsTo(row.id, row.id, Cardinality(pg))

\* C12: a step of a callback changes at most one master row, the row of the
\* source_url the callback stores; every other row, the duplicate peer
\* included, keeps all its fields.
UpsertReturns(tag) ==
  handlers[tag].pc = "upsert" /\ handlers'[tag].pc = "index"
C12_OnlyOwnRowWritten ==
  [][ \/ pg' = pg
      \/ \E tag \in Tags :
           /\ UpsertReturns(tag)
           /\ LET url == Val(handlers[tag].data).source_url
              IN  /\ \A row \in pg : row.source_url # url => row \in pg'
                  /\ \A row \in pg' : row.source_url # url => row \in pg
                  /\ Cardinality(RowsOf(url)') = 1 ]_vars

\* C12 witness: a row stored as potential_duplicate points to a row of
\* another source_url that was stored earlier and is as it was stored.
C12_Witness ==
  \E row, peer \in pg :
    /\ row.status = "potential_duplicate"
    /\ row.duplicate_of_property_id = Some(peer.id)
    /\ peer.source_url # row.source_url
    /\ peer.status = "active" /\ peer.updated_at = peer.created_at
    /\ row.updated_at > peer.updated_at

\* C13 (as claimed): at any moment at most one message of the worker is
\* delivered and not yet acked or nacked.
C13_SingleFlight == Cardinality(InFlight) <= 1

\* C14 (as claimed): when the process exits after a signal, every delivered
\* message has been acked or nacked, and no callback starts on a message
\* after the signal was received.
C14_GracefulShutdown ==
  /\ [](proc = "exited" => InFlight = {})
  /\ [][proc # "running" =>
          \A tag \in Tags :
            handlers[tag].pc = "queued" => handlers'[tag].pc = "queued"]_vars

\* C15 (as claimed): a message that is a JSON object is normalized whatever
\* its price text says; it is nacked only when a store write failed.
C15_PriceTextNeverNacks ==
  \A tag \in Tags :
    (msgs[tag].kind = "object" /\ IsSettled(tag) /\ ~Acked(tag))
      => Has(tag, "normalized") /\ (Has(tag, "pg_fail") \/ Has(tag, "es_fail"))

\* C16 (as claimed): parsePrice returns the currency of the first match
\* when the text is scanned for $, €, £ and then for the codes USD, EUR, CAD,
\* GBP in any letter case, and no currency when none of them occurs.
ScannedCurrency(text) ==
  LET low == ToLowerCase(text)
  IN  CASE Includes(text, <<"$">>) -> Some("USD")
        [] Includes(text, <<"€">>) -> Some("EUR")
        [] Includes(text, <<"£">>) -> Some("GBP")
        [] Includes(low, <<"u","s","d">>) -> Some("USD")
        [] Includes(low, <<"e","u","r">>) -> Some("EUR")
        [] Includes(low, <<"c","a","d">>) -> Some("CAD")
        [] Includes(low, <<"g","b","p">>) -> Some("GBP")
        [] OTHER -> None
C16_CurrencyScanOrder ==
  (IsSome(priceResult) /\ IsSome(Val(priceInput))) =>
    /\ ~Val(priceResult).threw
    /\ Val(priceResult).currency = ScannedCurrency(Val(Val(priceInput)))

\* C17: in every record that normalization produced, in every master row
\* and in every index document, normalized_price_usd is present only when
\* price_original_numeric and currency_original are both present.
PriceFieldsAgree(r) ==
  IsSome(r.normalized_price_usd) =>
    IsSome(r.price_original_numeric) /\ IsSome(r.currency_original)
C17_NormalizedPriceNeedsBoth ==
  /\ \A tag \in InFlight : PriceFieldsAgree(Val(handlers[tag].data))
  /\ \A row \in pg : PriceFieldsAgree(row)
  /\ \A doc \in es : PriceFieldsAgree(doc.body)

\* C17 witness: one stored and indexed listing has a normalized price, and
\* another one has a currency but no amount and no normalized price.
C17_Witness ==
  /\ \E row \in pg, doc \in es :
       /\ doc.id = row.source_url
       /\ IsSome(row.normalized_price_usd) /\ IsSome(doc.body.normalized_price_usd)
  /\ \E row \in pg, doc \in es :
       /\ doc.id = row.source_url
       /\ IsSome(row.currency_original) /\ ~IsSome(row.price_original_numeric)
       /\ ~IsSome(row.normalized_price_usd)
       /\ ~IsSome(doc.body.normalized_price_usd)

\* C18: latitude and longitude of a master row are both present or both
\* absent, and an index document has location_coordinates exactly when the
\* record it was made from has both, with the same values.
BothOrNeither(r) == IsSome(r.latitude) <=> IsSome(r.longitude)
C18_CoordinatesPaired ==
  /\ \A row \in pg : BothOrNeither(row)
  /\ \A doc \in es :
       /\ BothOrNeither(doc.body)
       /\ IsSome(doc.body.location_coordinates) <=> IsSome(doc.body.latitude)
       /\ IsSome(doc.body.location_coordinates) =>
            /\ Val(doc.body.location_coordinates).lat = Val(doc.body.latitude)
            /\ Val(doc.body.location_coordinates).lon = Val(doc.body.longitude)

\* C18 witness: one indexed listing has coordinates in the row and in the
\* document, another one has them in neither.
C18_Witness ==
  /\ \E row \in pg, doc \in es :
       /\ doc.id = row.source_url
       /\ IsSome(row.latitude) /\ IsSome(row.longitude)
       /\ IsSome(doc.body.location_coordinates)
  /\ \E row \in pg, doc \in es :
       /\ doc.id = row.source_url
       /\ ~IsSome(row.latitude) /\ ~IsSome(row.longitude)
       /\ ~IsSome(doc.body.location_coordinates)

\* C19: after the geocoder threw or returned no candidate for a message, the
\* record has no latitude, longitude or geocoded payload, no duplicate query
\* is made, the upsert is attempted and stores the record without them, and
\* the message is acked exactly when the upsert and the index write
\* succeeded.
GeocoderFailed(tag) == Has(tag, "geo_throw") \/ Has(tag, "geo_empty")
NoCoordinates(r) ==
  ~IsSome(r.latitude) /\ ~IsSome(r.longitude) /\ ~IsSome(r.geocoded_data_raw)
C19_GeocoderFailureTolerated ==
  /\ [](\A tag \in Tags :
          GeocoderFailed(tag) =>
            /\ Has(tag, "dup_skipped")
            /\ ~Has(tag, "dup_none") /\ ~Has(tag, "dup_fail")
            /\ ~Has(tag, "dup_found")
            /\ tag \in InFlight =>
                 /\ NoCoordinates(Val(handlers[tag].data))
                 /\ Val(handlers[tag].data).status = "active"
            /\ IsSettled(tag) =>
                 /\ Has(tag, "pg_ok") \/ Has(tag, "pg_fail")
                 /\ Acked(tag) <=> (Has(tag, "pg_ok") /\ Has(tag, "es_ok")))
  /\ [][\A tag \in Tags :
          (GeocoderFailed(tag) /\ UpsertReturns(tag)) =>
            /\ RowsOf(Val(log[tag].url))' # {}
            /\ \A row \in RowsOf(Val(log[tag].url))' : NoCoordinates(row)]_vars

\* C19 witness: a message whose geocoder call failed was acked, and its row
\* and document have no coordinates.
C19_Witness ==
  \E tag \in Tags :
    /\ GeocoderFailed(tag) /\ IsSettled(tag) /\ Acked(tag)
    /\ \E row \in RowsOf(Val(log[tag].url)), doc \in DocsOf(Val(log[tag].url)) :
         NoCoordinates(row) /\ ~IsSome(doc.body.location_coordinates)

\* C20: when the duplicate query of a message fails, the record stays active
\* without duplicate_of_property_id; when it returns rows, the record becomes
\* potential_duplicate of a returned row that no other returned row precedes
\* by higher title similarity or, at equal similarity, later
\* scrape_timestamp.  The upsert stores the record so, and after a failed
\* query the message is acked exactly when both store writes succeeded.
DupQueryReturns(tag) ==
  handlers[tag].pc = "dupquery" /\ handlers'[tag].pc = "upsert"
Matches(d) == {row \in pg : IsCandidate(row, d)}
\* similarity of row a to d is higher than that of row b
MoreSimilar(a, b, d) ==
  SimilarityNum(a.title, d.title) * SimilarityDen(b.title, d.title)
    > SimilarityNum(b.title, d.title) * SimilarityDen(a.title, d.title)
Outranks(a, b, d) ==
  \/ MoreSimilar(a, b, d)
  \/ /\ ~MoreSimilar(b, a, d)
     /\ a.scrape_timestamp > b.scrape_timestamp
C20_DuplicateQueryOutcome ==
  /\ [](\A tag \in Tags :
          (Has(tag, "dup_fail") /\ IsSettled(tag)) =>
            (Acked(tag) <=> (Has(tag, "pg_ok") /\ Has(tag, "es_ok"))))
  /\ [][\A tag \in Tags :
          LET d == Val(handlers[tag].data)
              e == Val(handlers'[tag].data)
          IN  /\ (DupQueryReturns(tag) /\ Has(tag, "dup_fail")') =>
                   /\ e.status = "active"
                   /\ ~IsSome(e.duplicate_of_property_id)
              /\ (DupQueryReturns(tag) /\ Matches(d) # {}
                    /\ ~Has(tag, "dup_fail")') =>
                   /\ e.status = "potential_duplicate"
                   /\ \E c \in Matches(d) :
                        /\ e.duplicate_of_property_id = Some(c.id)
                        /\ \A o \in Matches(d) : ~Outranks(o, c, d)
              /\ UpsertReturns(tag) =>
                   \E row \in RowsOf(d.source_url)' :
                     /\ row.status = d.status
                     /\ row.duplicate_of_property_id =
                          d.duplicate_of_property_id ]_vars

\* C20 witness: the duplicate query of one message failed and the message
\* was acked; the duplicate query of another message has just returned two
\* rows of different rank and the record is marked potential_duplicate.
C20_Witness ==
  /\ \E tag \in Tags : Has(tag, "dup_fail") /\ IsSettled(tag) /\ Acked(tag)
  /\ \E tag \in Tags :
       /\ handlers[tag].pc = "upsert" /\ Has(tag, "dup_found")
       /\ Val(handlers[tag].data).status = "potential_duplicate"
       /\ \E a, b \in Matches(Val(handlers[tag].data)) :
            Outranks(a, b, Val(handlers[tag].data))

\* ------------------------------------------------- properties of the API
Status(i) == Val(reqs[i].res).status
Via(i) == Val(reqs[i].res).via
\* the handler of the request ran past its cache lookup and answered
Handled(i) == Done(i) /\ Via(i) \in {"validation", "search"}
\* the request sent a query to the search store
Searched(i) == \E k \in 1..Len(searches) : searches[k].req = i
\* the parameter is the text of an integer smaller than 1
BelowOne(param) ==
  /\ IsSome(param)
  /\ IsSome(ParseInt(ParamChars[Val(param)]))
  /\ Val(ParseInt(ParamChars[Val(param)])) < 1

\* C21 (as claimed): a GET /properties request whose page or limit is an
\* integer smaller than 1 (0 included) sends no query to the search store
\* and writes no cache entry, and the answer of its handler is 400.
C21_NonPositivePagingRejected ==
  \A i \in Reqs :
    (/\ reqs[i].endpoint = "properties"
     /\ BelowOne(reqs[i].query.page) \/ BelowOne(reqs[i].query.limit)) =>
      /\ ~Searched(i)
      /\ ~IsSome(reqs[i].wrote)
      /\ Handled(i) => Status(i) = 400

\* the geo parameters a request supplies
GeoNames == {"lat", "lon", "radius_km"}
GeoGiven(query) == {n \in GeoNames : IsSome(query[n])}
\* the parameter is the text of a number
Numeric(param) == IsSome(param) /\ IsSome(ParseNumber(ParamChars[Val(param)]))
NumberOf(param) == Val(ParseNumber(ParamChars[Val(param)]))
\* the query the handler sent has a geo_distance clause
HasGeoClause(sent) ==
  \E k \in 1..Len(sent.filter) : sent.filter[k].kind = "geo_distance"

\* C22 (as claimed): a GET /properties request that supplies one or two of
\* lat, lon and radius_km, or a radius_km that is not positive, is answered
\* 400; the query sent has the geo-distance clause exactly when all three
\* are supplied as numbers with radius_km > 0.
C22_GeoParametersTogether ==
  \A i \in Reqs :
    LET query == reqs[i].query
        partial == GeoGiven(query) # {} /\ GeoGiven(query) # GeoNames
        notPositive == Numeric(query.radius_km) /\ NumberOf(query.radius_km) <= 0
    IN  reqs[i].endpoint = "properties" =>
          /\ (Handled(i) /\ (partial \/ notPositive)) => Status(i) = 400
          /\ IsSome(reqs[i].sent) =>
               (HasGeoClause(Val(reqs[i].sent)) <=>
                  /\ GeoGiven(query) = GeoNames
                  /\ Numeric(query.lat) /\ Numeric(query.lon)
                  /\ Numeric(query.radius_km) /\ NumberOf(query.radius_km) > 0)

\* C22, the part that holds: with all three geo parameters supplied, a
\* radius_km that is not positive is answered 400, and the query sent has
\* the geo-distance clause exactly when the three are numbers with
\* radius_km > 0.
GeoClauseWhenAllThreeValid ==
  \A i \in Reqs :
    LET query == reqs[i].query
    IN  reqs[i].endpoint = "properties" =>
          /\ (/\ Handled(i) /\ GeoGiven(query) = GeoNames
              /\ Numeric(query.radius_km) /\ NumberOf(query.radius_km) <= 0)
               => Status(i) = 400
          /\ IsSome(reqs[i].sent) =>
               (HasGeoClause(Val(reqs[i].sent)) <=>
                  /\ GeoGiven(query) = GeoNames
                  /\ Numeric(query.lat) /\ Numeric(query.lon)
                  /\ Numeric(query.radius_km) /\ NumberOf(query.radius_km) > 0)

\* the response of the request was computed from an answer of the search
\* store
Computed(i) == IsSome(reqs[i].found)
\* the listing was in the index, with status active
ActiveIn(docs, listing) ==
  /\ listing.status = "active"
  /\ [id |-> listing.source_url, body |-> listing] \in docs

PrimarySort(i) == Val(reqs[i].sent).sort[1]
\* the request was sent to the search store without a sort_by parameter
DefaultSorted(i) ==
  /\ reqs[i].endpoint = "properties"
  /\ IsSome(reqs[i].sent)
  /\ ~IsSome(reqs[i].query.sort_by)
\* the primary sort claimed for a request without sort_by
ClaimedDefault(i) ==
  IF IsSome(reqs[i].query.q) THEN PrimarySort(i).field = "_score"
  ELSE IF HasGeoClause(Val(reqs[i].sent))
       THEN PrimarySort(i).field = "_geo_distance"
       ELSE /\ PrimarySort(i).field = "date_posted"
            /\ reqs[i].query.order # Some("asc") => PrimarySort(i).order = "desc"

\* C24 (as claimed): without sort_by the primary sort is relevance when q is
\* supplied, else distance when the geo search is active (for every valid
\* lat and lon, 0 included), else date descending.
C24_DefaultSort == \A i \in Reqs : DefaultSorted(i) => ClaimedDefault(i)

\* C24, the part that holds: the same for the requests whose lat and lon
\* are not 0.
DefaultSortAwayFromZero ==
  \A i \in Reqs :
    (/\ DefaultSorted(i)
     /\ reqs[i].query.lat # Some("0") /\ reqs[i].query.lon # Some("0"))
      => ClaimedDefault(i)

\* the request was sent to the search store with a primary sort by price,
\* date, area or distance
DirectedSort(i) ==
  /\ reqs[i].endpoint = "properties"
  /\ IsSome(reqs[i].sent)
  /\ \/ SortBy(reqs[i].query) = "price"
        /\ PrimarySort(i).field = "normalized_price_usd"
     \/ SortBy(reqs[i].query) = "date" /\ PrimarySort(i).field = "date_posted"
     \/ SortBy(reqs[i].query) = "area"
        /\ PrimarySort(i).field = "normalized_area_sqft"
     \/ SortBy(reqs[i].query) = "distance"
        /\ PrimarySort(i).field = "_geo_distance"
ExplicitOrder(i) ==
  reqs[i].query.order = Some("asc") \/ reqs[i].query.order = Some("desc")

\* C25 (as claimed): the direction of the primary sort is the order
\* parameter when it is 'asc' or 'desc'; otherwise it is 'desc', except
\* that a sort by distance is ascending.
C25_SortDirection ==
  \A i \in Reqs :
    DirectedSort(i) =>
      PrimarySort(i).order =
        IF ExplicitOrder(i) THEN Val(reqs[i].query.order)
        ELSE IF PrimarySort(i).field = "_geo_distance" THEN "asc"
        ELSE "desc"

\* C25, the part that holds: the direction is the order parameter when it
\* is 'asc' or 'desc', and 'desc' otherwise for a sort by price, date or
\* area.
SortDirectionButDistance ==
  \A i \in Reqs :
    (DirectedSort(i)
       /\ (ExplicitOrder(i) \/ PrimarySort(i).field # "_geo_distance")) =>
      PrimarySort(i).order =
        IF ExplicitOrder(i) THEN Val(reqs[i].query.order) ELSE "desc"

\* the sort ends with date descending and then score descending
EndsWithTieBreaks(sort) ==
  /\ Len(sort) >= 2
  /\ sort[Len(sort) - 1] = By("date_posted", "desc")
  /\ sort[Len(sort)] = By("_score", "desc")

\* C26 (as claimed): the sort of every query GET /properties sends ends
\* with the tie-breaks date descending and score descending, whatever the
\* primary sort.
C26_TieBreaks ==
  \A i \in Reqs :
    (reqs[i].endpoint = "properties" /\ IsSome(reqs[i].sent)) =>
      EndsWithTieBreaks(Val(reqs[i].sent).sort)

\* C26, the part that holds: the same when the sort is neither by relevance
\* nor by distance.
TieBreaksButRelevanceAndDistance ==
  \A i \in Reqs :
    (/\ reqs[i].endpoint = "properties" /\ IsSome(reqs[i].sent)
     /\ SortBy(reqs[i].query) # "relevance"
     /\ SortBy(reqs[i].query) # "distance") =>
      EndsWithTieBreaks(Val(reqs[i].sent).sort)

\* the pagination member of a computed GET /properties response
Paged(i) == reqs[i].endpoint = "properties" /\ Computed(i)
PaginationOf(i) == Val(reqs[i].found).pagination
\* n is the least number of pages of `limit` items that hold totalItems
IsPageCount(n, totalItems, limit) ==
  /\ n >= 0
  /\ n * limit >= totalItems
  /\ n > 0 => (n - 1) * limit < totalItems
\* nextPage and prevPage are null at the boundaries and page +- 1 otherwise
Neighbours(p) ==
  /\ p.nextPage = IF p.currentPage < p.totalPages
                  THEN Some(p.currentPage + 1) ELSE None
  /\ p.prevPage = IF p.currentPage > 1 THEN Some(p.currentPage - 1) ELSE None
\* a page number that is not null names a page that exists
Exists(page, p) == IsSome(page) => Val(page) \in 1..p.totalPages

\* C27 (as claimed): in every computed GET /properties response totalPages
\* is ceil(totalItems / limit), nextPage and prevPage are null at the
\* boundaries and page +- 1 otherwise, and a nextPage or prevPage that is
\* not null is a page in 1..totalPages, also when the requested page lies
\* beyond totalPages.
C27_Pagination ==
  \A i \in Reqs :
    Paged(i) =>
      LET p == PaginationOf(i)
      IN  /\ IsPageCount(p.totalPages, p.totalItems, p.limit)
          /\ Neighbours(p)
          /\ Exists(p.nextPage, p) /\ Exists(p.prevPage, p)

\* C27, the part that holds: the page count and the neighbours are as
\* claimed, nextPage exists whenever it is not null, and prevPage exists
\* when the requested page is at most totalPages + 1.
PaginationWithinRange ==
  \A i \in Reqs :
    Paged(i) =>
      LET p == PaginationOf(i)
      IN  /\ IsPageCount(p.totalPages, p.totalItems, p.limit)
          /\ Neighbours(p)
          /\ Exists(p.nextPage, p)
          /\ p.currentPage <= p.totalPages + 1 => Exists(p.prevPage, p)

\* two objects are equal as maps: the same names with equal values, in
\* whatever order the members were inserted
RECURSIVE EqualAsMaps(_, _)
EqualValues(v, w) ==
  /\ v.kind = w.kind
  /\ IF v.kind = "string" THEN v.str = w.str
     ELSE EqualAsMaps(v.members, w.members)
EqualAsMaps(a, b) ==
  /\ {a[i][1] : i \in 1..Len(a)} = {b[j][1] : j \in 1..Len(b)}
  /\ \A i \in 1..Len(a), j \in 1..Len(b) :
       a[i][1] = b[j][1] => EqualValues(a[i][2], b[j][2])
\* every value of the object is a string
Flat(a) == \A i \in 1..Len(a) : a[i][2].kind = "string"
\* the key is '<prefix>:<hash>'
HasPrefix(key, prefix) == Len(key) = 3 /\ key[1] = prefix /\ key[2] = ":"

\* C28 (as claimed): generateCacheKey returns equal keys for two parameter
\* objects exactly when they are equal as maps, in whatever order their
\* members were inserted, and every key is '<prefix>:<hash>'.
C28_CacheKeyOfMap ==
  IsSome(keyResult) =>
    LET arg == Val(keyInput)
        keys == Val(keyResult)
    IN  /\ keys[1] = keys[2] <=> EqualAsMaps(arg.first, arg.second)
        /\ HasPrefix(keys[1], arg.prefix) /\ HasPrefix(keys[2], arg.prefix)

\* C28, the part that holds: the same for objects whose values are all
\* strings.
CacheKeyOfFlatMap ==
  (IsSome(keyResult) /\ Flat(Val(keyInput).first) /\ Flat(Val(keyInput).second))
    => LET arg == Val(keyInput)
           keys == Val(keyResult)
       IN  /\ keys[1] = keys[2] <=> EqualAsMaps(arg.first, arg.second)
           /\ HasPrefix(keys[1], arg.prefix) /\ HasPrefix(keys[2], arg.prefix)

\* the entry under the key of request i was written less than its lifetime
\* ago
WithinTtl(i) ==
  /\ reqs[i].key \in DOMAIN cache
  /\ clock < cache[reqs[i].key].at + TtlOf(reqs[i].endpoint)
\* the cache lookup of request i returns in this step
Reads(i) == reqs[i].pc = "get" /\ reqs'[i].pc # "get" /\ faults' = faults
\* request i was answered from the cache with the response of request w
ServedResponseOf(i, w) ==
  /\ Done(i) /\ Status(i) = 200 /\ Via(i) = "cache"
  /\ Done(w) /\ Status(w) = 200 /\ Via(w) = "search"
  /\ reqs[w].endpoint = reqs[i].endpoint /\ reqs[w].query = reqs[i].query
  /\ Val(reqs[i].res).body = Val(reqs[w].res).body
  /\ ~Searched(i)

\* C29: when the cache lookup of a request returns while an entry written
\* for the same query less than the lifetime ago exists, the request is
\* answered with the body of the response that wrote the entry and sends
\* nothing to the search store; otherwise it is not served from the cache.
\* A request served from the cache got the response of an earlier request
\* with the same query, written less than the lifetime before.
C29_ReadThroughCache ==
  /\ [][\A i \in Reqs :
          Reads(i) =>
            IF WithinTtl(i)
            THEN /\ reqs'[i].pc = "done"
                 /\ Val(reqs'[i].res).status = 200
                 /\ Val(reqs'[i].res).body =
                      Val(reqs[cache[reqs[i].key].by].res).body
                 /\ searches' = searches
            ELSE /\ ~IsSome(reqs'[i].hit)
                 /\ IsSome(reqs'[i].res) => Val(reqs'[i].res).via # "cache"]_vars
  /\ [](\A i \in Reqs :
          IsSome(reqs[i].hit) =>
            /\ ServedResponseOf(i, Val(reqs[i].hit).by)
            /\ Val(reqs[Val(reqs[i].hit).by].wrote) = Val(reqs[i].hit))

\* C29 witness: a request was answered from the cache with the response of
\* a request that had been answered before it arrived, after the index had
\* changed.
C29_Witness ==
  \E a, b \in Reqs :
    /\ a \in reqs[b].after
    /\ IsSome(reqs[b].hit) /\ Val(reqs[b].hit).by = a
    /\ ServedResponseOf(b, a)
    /\ es # Val(reqs[a].index)

\* the search request of request i failed
SearchFailed(i) == IsSome(reqs[i].sent) /\ Done(i) /\ ~Computed(i)
\* no entry of the cache was written by request i
WroteNothing(i) ==
  /\ ~IsSome(reqs[i].wrote)
  /\ \A key \in DOMAIN cache : cache[key].by # i

\* C30: a request whose search request failed is answered 500 and writes
\* nothing to the cache; every cache entry is the body of a 200 response
\* that its writer computed from an answer of the search store, and a
\* request answered 400, 429 or 500 wrote nothing.
C30_OnlyComputedResponsesCached ==
  /\ \A i \in Reqs : SearchFailed(i) => Status(i) = 500 /\ WroteNothing(i)
  /\ \A key \in DOMAIN cache :
       LET w == cache[key].by
       IN  /\ Done(w) /\ Status(w) = 200 /\ Via(w) = "search" /\ Computed(w)
           /\ cache[key].value = Serialized(Val(reqs[w].res).body)
  /\ \A i \in Reqs : (Done(i) /\ Status(i) # 200) => WroteNothing(i)

\* C30 witness: the search request of one request failed, and the cache
\* holds the response of another one.
C30_Witness ==
  \E i, w \in Reqs :
    /\ SearchFailed(i) /\ Status(i) = 500
    /\ reqs[w].key \in DOMAIN cache /\ cache[reqs[w].key].by = w

\* a cache command of request i (the lookup or the write) fails in this
\* step
CacheFails(i) ==
  /\ reqs[i].pc \in {"get", "set"}
  /\ reqs'[i] # reqs[i]
  /\ faults' = faults + 1

\* C31 (as claimed): when the cache lookup of a request fails the handler
\* goes on as after a miss (it validates and searches), and when the cache
\* write fails the request is answered 200 with the response it computed;
\* a failing cache command is never answered with an error.
C31_CacheFailOpen ==
  [][\A i \in Reqs :
       CacheFails(i) =>
         IF reqs[i].pc = "set"
         THEN /\ reqs'[i].pc = "done"
              /\ Val(reqs'[i].res).status = 200
              /\ Val(reqs'[i].res).body = Val(reqs[i].found)
         ELSE reqs'[i].pc = "done" => Val(reqs'[i].res).via = "validation"]_vars

\* the part of C31 that holds: a failing cache command leaves the cache as
\* it was, and the request is answered 500 with the body of the catch
\* block.
CacheFailureAnswered500 ==
  [][\A i \in Reqs :
       CacheFails(i) =>
         /\ cache' = cache
         /\ reqs'[i].pc = "done"
         /\ Val(reqs'[i].res).status = 500
         /\ Val(reqs'[i].res).body = FailureBody(reqs[i].endpoint)]_vars

\* the middleware answers or passes on request i in this step
LimiterSettles(i) == reqs[i].pc = "limiter" /\ reqs'[i] # reqs[i]
\* ... while the store of the limiter is unavailable: no limiter has been
\* created, or the consume call fails
StoreUnavailable(i) ==
  LimiterSettles(i) /\ (~IsSome(limiter') \/ faults' = faults + 1)

\* C32 (as claimed): when the store of the rate limiter is unavailable (no
\* limiter was created, or consume fails) the middleware passes the request
\* on to its handler and answers neither 429 nor 500.
C32_LimiterFailsOpen ==
  [][\A i \in Reqs : StoreUnavailable(i) => reqs'[i].pc = "get"]_vars

\* the part of C32 that holds: a request that finds no limiter, while none
\* can be created, is passed on to its handler, uncounted.
UninitializedLimiterPasses ==
  [][\A i \in Reqs :
       (LimiterSettles(i) /\ ~IsSome(limiter')) =>
         /\ reqs'[i].pc = "get"
         /\ ~IsSome(reqs'[i].consumedAt)]_vars

\* ---- the budget of a client address, stated from the history of the
\* ---- requests alone: fixed windows of RATE_LIMIT_DURATION seconds, each
\* ---- opened by the first request counted after the previous one closed
CountedAt(ip) ==
  {Val(reqs[k].consumedAt) :
     k \in {j \in Reqs : reqs[j].ip = ip /\ IsSome(reqs[j].consumedAt)}}
Earliest(times) == CHOOSE t \in times : \A u \in times : t <= u
RECURSIVE WindowOf(_, _, _)
WindowOf(times, start, t) ==
  IF t < start + RATE_LIMIT_DURATION
  THEN start
  ELSE WindowOf(times,
                Earliest({u \in times : u >= start + RATE_LIMIT_DURATION}), t)
\* the requests of the address already counted in the window that holds now
CountedInWindow(ip) ==
  LET times == CountedAt(ip) \cup {clock}
      opened == WindowOf(times, Earliest(times), clock)
  IN  {k \in Reqs : /\ reqs[k].ip = ip
                    /\ IsSome(reqs[k].consumedAt)
                    /\ Val(reqs[k].consumedAt) >= opened}
Rejected429(r) ==
  /\ r.pc = "done"
  /\ r.res[1].status = 429
  /\ r.res[1].via = "limiter"

\* C33: with a working store, the middleware rejects a request with 429
\* exactly when the address has already used RATE_LIMIT_POINTS requests in
\* the current window of RATE_LIMIT_DURATION seconds; a rejected request
\* never reaches a handler (no cache lookup, no search, no cache write) and
\* its Retry-After is a whole number of seconds in 1..RATE_LIMIT_DURATION.
C33_BudgetPerWindow ==
  [][\A i \in Reqs :
       (LimiterSettles(i) /\ ~StoreUnavailable(i)) =>
         /\ Rejected429(reqs'[i]) <=>
              Cardinality(CountedInWindow(reqs[i].ip)) >= RATE_LIMIT_POINTS
         /\ ~Rejected429(reqs'[i]) => reqs'[i].pc = "get"
         /\ Rejected429(reqs'[i]) =>
              /\ reqs'[i].key = None
              /\ reqs'[i].hit = None
              /\ reqs'[i].sent = None
              /\ reqs'[i].wrote = None
              /\ searches' = searches
              /\ cache' = cache
              /\ IsSome(reqs'[i].res[1].retryAfter)
              /\ Val(reqs'[i].res[1].retryAfter) \in 1..RATE_LIMIT_DURATION]_vars

\* C33 witness: a request was rejected with 429 and a Retry-After while an
\* earlier request of the same address had been counted and passed on.
C33_Witness ==
  \E i \in Reqs, k \in Reqs :
    /\ i # k
    /\ Rejected429(reqs[i])
    /\ IsSome(reqs[i].res[1].retryAfter)
    /\ reqs[k].ip = reqs[i].ip
    /\ IsSome(reqs[k].consumedAt)
    /\ ~Rejected429(reqs[k])

\* a later window: two requests of one address were both counted and both
\* passed on, the second after the window of the first had closed.
BudgetRenewed ==
  \E i \in Reqs, k \in Reqs :
    /\ i # k
    /\ reqs[k].ip = reqs[i].ip
    /\ IsSome(reqs[i].consumedAt) /\ ~Rejected429(reqs[i])
    /\ IsSome(reqs[k].consumedAt) /\ ~Rejected429(reqs[k])

\* a failure response: 400, 429 or 500
Failure(r) == r.pc = "done" /\ r.res[1].status \in {400, 429, 500}

\* C34 (as claimed): every failure response (400, 429, 500, those of the
\* rate-limit middleware included) is a JSON body that holds an `error`
\* string and nothing else, so no detail of the search store or the runtime.
C34_FailuresAreJsonErrors ==
  \A i \in Reqs :
    Failure(reqs[i]) => DOMAIN reqs[i].res[1].body = {"error"}

\* the part of C34 that holds: the failure responses of the two handlers are
\* JSON bodies with exactly an `error` string.
HandlerFailuresAreJsonErrors ==
  \A i \in Reqs :
    (Failure(reqs[i]) /\ reqs[i].res[1].via # "limiter") =>
      DOMAIN reqs[i].res[1].body = {"error"}

\* ---- the property type and amenities parameters
\* request i of GET /properties got its response from the search store
Answered(i) == reqs[i].endpoint = "properties" /\ Computed(i)
Returned(i) == Val(reqs[i].found).data
\* the types a request asks for: the trimmed non-empty items of the list
TypesAsked(i) ==
  IF Supplied(reqs[i].query.property_type)
  THEN {TrimmedItems(FilterChars[Val(reqs[i].query.property_type)])[k] :
          k \in 1..Len(TrimmedItems(FilterChars[Val(reqs[i].query.property_type)]))}
  ELSE {}
OfType(body, types) ==
  IsSome(body.property_type) /\ Val(body.property_type) \in types
NamesSource(clause) ==
  clause.field \in {"source_name", "source_name.keyword"}

AmenitiesOfParam ==
  [ p \in {"", "Pool", "pool", "Pool,GYM", " , "} |->
    CASE p = "Pool" -> {"pool"}
      [] p = "pool" -> {"pool"}
      [] p = "Pool,GYM" -> {"pool", "gym"}
      [] OTHER -> {} ]
AmenitiesAsked(i) ==
  IF IsSome(reqs[i].query.amenities)
  THEN AmenitiesOfParam[Val(reqs[i].query.amenities)]
  ELSE {}
AmenityFilters(i) ==
  {k \in 1..Len(Val(reqs[i].sent).filter) :
     Val(reqs[i].sent).filter[k].field = "amenities"}
HasAll(body, asked) ==
  asked \subseteq {body.amenities[k] : k \in 1..Len(body.amenities)}

\* C36: the query sent holds exactly one term filter on amenities for each
\* non-empty, trimmed, lower-cased item of the amenities list, so none for
\* an empty input; every listing returned holds every requested item.
C36_AmenitiesAllRequired ==
  \A i \in Reqs :
    IsSome(reqs[i].sent) /\ reqs[i].endpoint = "properties" =>
      /\ {Val(reqs[i].sent).filter[k] : k \in AmenityFilters(i)} =
           {Clause("term", "amenities", a) : a \in AmenitiesAsked(i)}
      /\ Cardinality(AmenityFilters(i)) = Cardinality(AmenitiesAsked(i))
      /\ Answered(i) => \A body \in Returned(i) : HasAll(body, AmenitiesAsked(i))

\* C36 witness: a request for Pool,GYM was answered with the listing that
\* holds pool and gym, from an index that holds an active listing with pool
\* alone, which is not in the response.
C36_Witness ==
  \E i \in Reqs :
    /\ Answered(i)
    /\ reqs[i].query.amenities = Some("Pool,GYM")
    /\ \E body \in Returned(i) : body.amenities = <<"pool", "gym">>
    /\ \E doc \in Val(reqs[i].index) :
         /\ doc.body.status = "active"
         /\ doc.body.amenities = <<"pool">>
         /\ doc.body \notin Returned(i)

\* a request that asks for one value of one of the two parameters and
\* nothing else, answered with the first page of up to ten listings
AsksOnly(i, name, value) ==
  /\ Answered(i)
  /\ reqs[i].query = [NoParams EXCEPT ![name] = Some(value)]
\* the active listings of the index the request was answered from
ActiveListings(i) ==
  {doc.body : doc \in {d \in Val(reqs[i].index) : d.body.status = "active"}}

\* C40 (as claimed): a request with amenities=A returns every active listing
\* that was ingested with the amenity string A, and a request with
\* property_type=T returns every active listing ingested with the type T.
C40_IngestAndQueryAgree ==
  \A i \in Reqs :
    /\ \A A \in {"Pool", "pool"} :
         AsksOnly(i, "amenities", A) =>
           \A body \in ActiveListings(i) :
             HasAll(body, {AmenitiesOf(AmenityString(A))[k] :
                             k \in 1..Len(AmenitiesOf(AmenityString(A)))}) =>
               body \in Returned(i)
    /\ \A T \in {"Apartment"} :
         AsksOnly(i, "property_type", T) =>
           \A body \in ActiveListings(i) :
             body.property_type = PropertyTypeOf(Some(T)) => body \in Returned(i)

\* the part of C40 that holds: a request for an amenity returns every active
\* listing whose stored amenities hold the amenity in lower case.
LowerCaseAmenitiesAgree ==
  \A i \in Reqs :
    \A A \in {"Pool", "pool"} :
      AsksOnly(i, "amenities", A) =>
        /\ \A body \in ActiveListings(i) :
             HasAll(body, {"pool"}) => body \in Returned(i)
        /\ Returned(i) # {}

\* ---- parseBedrooms, stated on the parts a text is composed of
Called == IsSome(bedroomsInput) /\ IsSome(bedroomsResult)
NumberOfDigits ==
  [d \in {<<"3">>, <<"1","2">>} |-> IF d = <<"3">> THEN 3 ELSE 12]
SaysStudio(call) ==
  \/ call.lead = <<"S","t","u","d","i","o"," ">>
  \/ call.word = <<"S","T","U","D","I","O">>
CountsBeds(call) ==
  /\ call.number # <<>>
  /\ call.word \in {<<"b","e","d">>, <<"B","e","d","s">>, <<"B","R">>,
                    <<"B","e","d","r","o","o","m">>}
BareInteger(call) ==
  /\ call.number # <<>>
  /\ call.lead = <<>> /\ call.space = <<>> /\ call.word = <<>>
  /\ call.tail = <<>>
Bedrooms(call) ==
  IF call.isNull \/ BedroomArgument(call) = Some(<<>>) THEN None
  ELSE IF SaysStudio(call) THEN Some(0)
  ELSE IF CountsBeds(call) THEN Some(NumberOfDigits[call.number])
  ELSE IF call.tail = <<" ","5"," ","b","r">> THEN Some(5)
  ELSE IF BareInteger(call) THEN Some(NumberOfDigits[call.number])
  ELSE None

\* C37: parseBedrooms returns 0 when the text contains studio in any letter
\* case, whatever numbers it holds; otherwise the number of the first
\* '<N> bed|br|bedroom' in the text; otherwise the value of a text that is
\* a bare integer; otherwise nothing, also for the empty text and null.
C37_ParseBedrooms ==
  Called => Val(bedroomsResult) = Bedrooms(Val(bedroomsInput))

\* C37 witness: the call with 'Studio 3 Beds 5 br' has returned 0.
C37_Witness ==
  /\ Called
  /\ BedroomArgument(Val(bedroomsInput)) =
       Some(<<"S","t","u","d","i","o"," ","3"," ","B","e","d","s",
              " ","5"," ","b","r">>)
  /\ Val(bedroomsResult) = Some(0)

\* ---- duplicates among the active listings
Apart(x, y, threshold) == x - y > threshold \/ y - x > threshold
\* two listings of different sources, both with coordinates, within the
\* thresholds of each other and with similar titles
Alike(a, b) ==
  /\ a.source_name # b.source_name
  /\ IsSome(a.latitude) /\ IsSome(a.longitude)
  /\ IsSome(b.latitude) /\ IsSome(b.longitude)
  /\ ~Apart(Val(a.latitude), Val(b.latitude), LAT_DEG_THRESHOLD)
  /\ ~Apart(Val(a.longitude), Val(b.longitude), LON_DEG_THRESHOLD)
  /\ SimilarityNum(a.title, b.title) * SimThresholdDen
       >= SimThresholdNum * SimilarityDen(a.title, b.title)

\* C38: with one message in flight at a time, a geocoder that answers and a
\* duplicate query that succeeds, no two active listings of different
\* sources are duplicate candidates of each other; an upsert of a listing
\* that is alike to an active listing of another source stores it as
\* potential_duplicate.
C38_NoActiveDuplicatePair ==
  /\ [](\A a \in pg, b \in pg :
          (a # b /\ a.status = "active" /\ b.status = "active") =>
            ~Alike(a, b))
  /\ [][\A tag \in Tags :
          (/\ UpsertReturns(tag)
           /\ \E row \in pg :
                /\ row.source_url # Val(handlers[tag].data).source_url
                /\ row.status = "active"
                /\ Alike(row, Val(handlers[tag].data))) =>
            \A row \in RowsOf(Val(handlers[tag].data).source_url)' :
              row.status = "potential_duplicate"]_vars

\* C38 witness: an active listing and, stored after it, a listing of
\* another source that is alike to it and is a potential duplicate.
C38_Witness ==
  \E a \in pg, b \in pg :
    /\ a.status = "active"
    /\ b.status = "potential_duplicate"
    /\ b.duplicate_of_property_id = Some(a.id)
    /\ a.source_url # b.source_url
    /\ Alike(a, b)

\* ---- listings retired outside the worker
Retired(status) == status \in RetiredStatuses

\* C39 (as claimed): a listing whose status is inactive or merged keeps that
\* status, in the master store and in the index, through every step of the
\* worker, so also when a message with its source_url is ingested again.
C39_RetiredStatusKept ==
  [][handlers' # handlers =>
       /\ \A row \in pg :
            Retired(row.status) =>
              \A next \in RowsOf(row.source_url)' : next.status = row.status
       /\ \A doc \in es :
            Retired(doc.body.status) =>
              \A next \in DocsOf(doc.id)' :
                next.body.status = doc.body.status]_vars

\* the part of C39 that holds: the only steps of the worker that take a
\* listing out of inactive or merged are the upsert and the index call of a
\* message with its source_url, and they write the status the worker
\* computed, active or potential_duplicate.
RetiredUntilReingest ==
  [][handlers' # handlers =>
       /\ \A row \in pg :
            (Retired(row.status) /\ RowsOf(row.source_url)' # {row}) =>
              /\ \E tag \in Tags :
                   /\ UpsertReturns(tag)
                   /\ Val(handlers[tag].data).source_url = row.source_url
              /\ \A next \in RowsOf(row.source_url)' :
                   next.status \in {"active", "potential_duplicate"}
       /\ \A doc \in es :
            (Retired(doc.body.status) /\ DocsOf(doc.id)' # {doc}) =>
              /\ \E tag \in Tags :
                   /\ handlers[tag].pc = "index"
                   /\ Val(handlers[tag].data).source_url = doc.id
              /\ \A next \in DocsOf(doc.id)' :
                   next.body.status \in {"active", "potential_duplicate"}]_vars
====
